---------------------------- MODULE Spec2Model ----------------------------
(***************************************************************************)
(* A state-machine model of the zoom-translator server (src/server.py and  *)
(* the pipeline modules it drives).                                        *)
(*                                                                         *)
(* The server is a single asyncio event loop: the code between two awaits  *)
(* runs atomically, and every await is a point where another handler may   *)
(* run.  Each action below is one such segment of one coroutine.  The      *)
(* external collaborators (bot hosting, recognizer, translation,           *)
(* synthesis, storage, the peers of the websockets) are modelled by their  *)
(* outcomes: every call either returns one of its results or raises.       *)
(***************************************************************************)
EXTENDS Integers, Sequences, FiniteSets, TLC

(***************************************************************************)
(* Bounds of the model.                                                    *)
(***************************************************************************)
MaxSess == 2
MaxAdapters == 2
MaxUtt == 2

(***************************************************************************)
(* Program constants.                                                      *)
(***************************************************************************)
BytesPerSec == 8000

(***************************************************************************)
(* Value domains.                                                          *)
(***************************************************************************)
Tokens == {"tok1", "tok2", "bad"}
BotIds == {"b1", "b2"}
Pids == {"p1", "p2"}
MgmtConns == {"m1", "m2"}
RecallConns == {"r1", "r2"}
ListenConns == {"l1", "l2"}
TargetLangs == {"es", "fr"}
ListenQueries == {"", "es", "FR", "en"}
DetectedLangs == {"ES", "FR", "EN"}
Texts == {"hola"}
Translations == {"hello"}
Mp3Sizes == {1000, 12000}
NoRec == 0
NoAdapter == 0
NoUser == ""
NoDuration == -1

\* config.TARGET_LANGUAGE and the source language of a fallback session
DefaultTarget == "en"
FallbackSource == "es"

\* str.lower() on the language tags the model uses
Lower(s) ==
    CASE s = "ES" -> "es"
      [] s = "FR" -> "fr"
      [] s = "EN" -> "en"
      [] OTHER -> s

\* supabase_client.verify_jwt: the subject of a valid token, NoUser (None) otherwise
VerifyJwt(token) ==
    CASE token = "tok1" -> "u1"
      [] token = "tok2" -> "u2"
      [] OTHER -> NoUser

VARIABLES
    sess,             \* every BotSession object constructed so far (index = object)
    bot_sessions,     \* the registry: bot id -> BotSession object, NoRec if absent
    mgmt_clients,     \* dict ws -> user_id, in insertion order
    listener_clients, \* language key -> set of listener connections
    adapters,         \* every ASRStream object constructed so far
    mgmt,             \* per management connection: position and locals of its handler
    recall,           \* per bot-audio connection: position and locals of its handler
    listener,         \* per listener connection: position of its handler
    utt,              \* history: every finalized utterance and what became of it
    received,         \* history: per listener connection, the utterances delivered
    tasks,            \* detached storage/status tasks created so far
    botapi,           \* history: ids handed out by create_bot, leave calls made
    ev                \* the messages the last segment sent to management clients

vars == <<sess, bot_sessions, mgmt_clients, listener_clients, adapters, mgmt,
          recall, listener, utt, received, tasks, botapi, ev>>

(***************************************************************************)
(* Recording (src/server.py, save_recording and helpers).                  *)
(***************************************************************************)

\* _format_srt_time: HH:MM:SS,mmm of a duration kept in bytes of MP3
\* (seconds = bytes / 8000), each field truncated as int() does
FormatSrtTime(bytes) ==
    LET ms == (bytes * 1000) \div BytesPerSec
        secs == ms \div 1000
    IN  <<secs \div 3600, (secs % 3600) \div 60, secs % 60, ms % 1000>>

\* round(seconds, 2): hundredths of a second, ties to even
Round2(bytes) ==
    LET unit == BytesPerSec \div 100
        q == bytes \div unit
        r == bytes % unit
    IN  IF 2 * r > unit THEN q + 1
        ELSE IF 2 * r < unit THEN q
        ELSE IF q % 2 = 0 THEN q ELSE q + 1

\* a BotSession built without its status argument: the dataclass default
NewSessionDefault(bot, user, src, tgt) ==
    [bot_id |-> bot, user_id |-> user, source_lang |-> src, target_lang |-> tgt,
     status |-> "starting", asr_streams |-> [p \in Pids |-> NoAdapter],
     clip_count |-> 0, audio_offset |-> 0,
     srt_buffer |-> <<>>, transcript_buffer |-> <<>>]

\* BotSession(...) as the dataclass constructs it, then _init_recording
NewSession(bot, user, src, tgt) ==
    [bot_id |-> bot, user_id |-> user, source_lang |-> src, target_lang |-> tgt,
     status |-> "in_call", asr_streams |-> [p \in Pids |-> NoAdapter],
     clip_count |-> 0, audio_offset |-> 0,
     srt_buffer |-> <<>>, transcript_buffer |-> <<>>]

\* save_recording with every clip placed at the start of the recording
SaveRecordingFromZero(s, size, original, translated) ==
    [s EXCEPT !.clip_count = @ + 1,
              !.audio_offset = size,
              !.srt_buffer = Append(@, [n |-> s.clip_count + 1,
                                        start |-> FormatSrtTime(0),
                                        end |-> FormatSrtTime(size),
                                        text |-> translated]),
              !.transcript_buffer = Append(@, [n |-> s.clip_count + 1,
                                        audio_start |-> Round2(0),
                                        audio_end |-> Round2(size),
                                        original |-> original,
                                        translated |-> translated])]

\* save_recording: the session after appending one clip
SaveRecording(s, size, original, translated) ==
    LET n == s.clip_count + 1
        start == s.audio_offset
        end == s.audio_offset + size
    IN  [s EXCEPT !.clip_count = n,
                  !.audio_offset = end,
                  !.srt_buffer = Append(@, [n |-> n, start |-> FormatSrtTime(start),
                                            end |-> FormatSrtTime(end),
                                            text |-> translated]),
                  !.transcript_buffer = Append(@, [n |-> n,
                                            audio_start |-> Round2(start),
                                            audio_end |-> Round2(end),
                                            original |-> original,
                                            translated |-> translated])]

\* a detached task (asyncio.create_task of a supabase_client call) and its arguments
Task(kind, user, bot, n, status, content, duration) ==
    [kind |-> kind, user |-> user, bot |-> bot, n |-> n, status |-> status,
     content |-> content, duration |-> duration, done |-> "pending"]

\* the two detached tasks save_recording creates
SaveRecordingTasks(s) ==
    {Task("upload_clip", s.user_id, s.bot_id, s.clip_count + 1, "", <<>>, NoDuration),
     Task("update_session_status", "", s.bot_id, s.clip_count + 1, "in_call", <<>>,
          NoDuration)}

(***************************************************************************)
(* The bot_sessions table of the database, as the detached writes leave it.*)
(***************************************************************************)

\* a column no write has set (clip_count: int | None = None)
NoCount == -1

\* create_session: the row inserted for a started bot
CreateSession ==
    [status |-> "in_call", clip_count |-> NoCount, duration |-> NoDuration]

\* update_session_status: the row after update(updates).eq("bot_id", bot_id);
\* clip_count and duration are among the updates only when they are given
UpdateSessionStatus(row, t) ==
    [row EXCEPT !.status = t.status,
                !.clip_count = IF t.n # NoCount THEN t.n ELSE @,
                !.duration = IF t.duration # NoDuration THEN t.duration ELSE @]

\* the status updates among the detached tasks of bot b
WritesOf(b) ==
    {t \in tasks : t.bot = b /\ t.kind = "update_session_status"}

\* the rows the updates W can leave behind, over every order in which the
\* worker threads of asyncio.to_thread complete them
RECURSIVE Outcomes(_, _)
Outcomes(row, W) ==
    IF W = {} THEN {row}
    ELSE UNION {Outcomes(UpdateSessionStatus(row, t), W \ {t}) : t \in W}

(***************************************************************************)
(* Small helpers.                                                          *)
(***************************************************************************)

\* a segment that sent nothing to a management client
Quiet == [k |-> "", who |-> "", res |-> "", out |-> {}]

\* what the last segment sent on the control channel: its label, the
\* management or bot-audio connection it ran for, the outcome of the call it
\* had awaited, and the messages it sent to management clients
Ev(k, who, res, out) ==
    IF out = {} THEN Quiet ELSE [k |-> k, who |-> who, res |-> res, out |-> out]

\* dict.pop(ws, None) on mgmt_clients
PopClients(clients, gone) == SelectSeq(clients, LAMBDA e : e[1] \notin gone)

\* keys of session.asr_streams
StreamKeys(s) == {p \in Pids : s.asr_streams[p] # NoAdapter}

Registered(b) == bot_sessions[b] # NoRec

(***************************************************************************)
(* Status snapshots (src/server.py, _sessions_snapshot, broadcast_status). *)
(***************************************************************************)

\* a snapshot that lists every registry session, whoever owns it
SessionsSnapshotAll(S, R, user) ==
    {[bot_id |-> S[R[b]].bot_id,
      source_lang |-> S[R[b]].source_lang,
      target_lang |-> S[R[b]].target_lang,
      status |-> S[R[b]].status,
      clip_count |-> S[R[b]].clip_count] :
        b \in {x \in BotIds : R[x] # NoRec}}

\* _sessions_snapshot(user_id): one view per registry session of that owner
\* (S: the BotSession objects, R: the registry, as they are when it is called)
SessionsSnapshot(S, R, user) ==
    {[bot_id |-> S[R[b]].bot_id,
      source_lang |-> S[R[b]].source_lang,
      target_lang |-> S[R[b]].target_lang,
      status |-> S[R[b]].status,
      clip_count |-> S[R[b]].clip_count] :
        b \in {x \in BotIds : R[x] # NoRec /\ S[R[x]].user_id = user}}

\* a status message that lists no session
StatusMsgEmpty(S, R, c, user) ==
    [to |-> c, type |-> "status", err |-> "", bots |-> {}]

\* the status message broadcast_status and mgmt_handler send to client c
StatusMsg(S, R, c, user) ==
    [to |-> c, type |-> "status", err |-> "", bots |-> SessionsSnapshot(S, R, user)]

ErrorMsg(c, text) == [to |-> c, type |-> "error", err |-> text, bots |-> {}]

\* the iteration state of one broadcast_status call: the clients visited, the
\* dict size the iterator was created with, the stale set
NewFrame(clients) == [seen |-> {}, used |-> Len(clients), stale |-> {}]

NoFrame == [seen |-> {}, used |-> 0, stale |-> {}]

\* broadcast_status from its start, or from the await of a send, up to its
\* next await: "error" when the dict changed size under the iterator
\* (RuntimeError), "yield" after sending to the next client, "done" after the
\* loop ended and the stale clients were popped
BroadcastStatusRun(f, S, R) ==
    LET rest == SelectSeq(mgmt_clients, LAMBDA e : e[1] \notin f.seen)
    IN  IF Len(mgmt_clients) # f.used
        THEN [res |-> "error", f |-> NoFrame, clients |-> mgmt_clients, out |-> {}]
        ELSE IF rest = <<>>
        THEN [res |-> "done", f |-> NoFrame,
              clients |-> PopClients(mgmt_clients, f.stale), out |-> {}]
        ELSE LET ws == rest[1][1]
                 user == rest[1][2]
             IN  IF mgmt[ws].alive
                 THEN [res |-> "yield", f |-> [f EXCEPT !.seen = @ \cup {ws}],
                       clients |-> mgmt_clients, out |-> {StatusMsg(S, R, ws, user)}]
                 ELSE [res |-> "yield",
                       f |-> [f EXCEPT !.seen = @ \cup {ws}, !.stale = @ \cup {ws}],
                       clients |-> mgmt_clients, out |-> {}]

(***************************************************************************)
(* Recognition adapters (src/pipeline/asr.py, ASRStream).                  *)
(***************************************************************************)

\* an adapter built for one fixed participant, whoever spoke
NewAdapterOfFirst(rec, pid) ==
    [rec |-> rec, pid |-> "p1", ctx |-> FALSE, socket |-> FALSE, listen |-> "none",
     pc |-> "read", fed |-> FALSE, closes |-> 0, exits |-> 0, raised |-> FALSE,
     u |-> 0, size |-> 0,
     seen |-> {}, used |-> 0, stale |-> {}]

\* ASRStream(participant_id, on_utterance): on_utterance is bound to session rec
NewAdapter(rec, pid) ==
    [rec |-> rec, pid |-> pid, ctx |-> FALSE, socket |-> FALSE, listen |-> "none",
     pc |-> "read", fed |-> FALSE, closes |-> 0, exits |-> 0, raised |-> FALSE,
     u |-> 0, size |-> 0,
     seen |-> {}, used |-> 0, stale |-> {}]

\* ASRStream.start up to its await: the connection context is created
StartBeginAdapter(a) == [a EXCEPT !.ctx = TRUE]

\* ASRStream.start after __aenter__ returned: socket set, read loop started
StartedAdapter(a) == [a EXCEPT !.socket = TRUE, !.listen = "run", !.pc = "read"]

\* ASRStream.send_audio
SendAudio(a) == IF a.socket THEN [a EXCEPT !.fed = TRUE] ELSE a

\* a close() that leaves the read loop running
CloseBeginKeepsLoop(a) == [a EXCEPT !.closes = @ + 1]

\* ASRStream.close up to its first await: the read loop task is cancelled,
\* and with it whatever the task is awaiting inside the utterance callback
CloseBegin(a) ==
    [a EXCEPT !.closes = @ + 1,
              !.listen = IF @ = "run" THEN "cancelled" ELSE @,
              !.pc = IF a.listen = "run" THEN "read" ELSE @,
              !.u = IF a.listen = "run" THEN 0 ELSE @,
              !.seen = {}, !.used = 0, !.stale = {}]

\* a close that leaves the connection context without testing _ctx
CloseFinishUnguarded(a) ==
    [a EXCEPT !.listen = IF a.closes > 0 THEN "none" ELSE @,
              !.exits = @ + 1,
              !.ctx = FALSE, !.socket = FALSE]

\* ASRStream.close after the task ended: _listen_task = None, then, if _ctx
\* is set, __aexit__ (whose failure is swallowed), _ctx = None and
\* _socket = None (exits counts the __aexit__ calls).  The two awaits are one
\* step here: between them close only clears its own field.
CloseFinish(a) ==
    [a EXCEPT !.listen = IF a.closes > 0 THEN "none" ELSE @,
              !.exits = IF a.ctx THEN @ + 1 ELSE @,
              !.ctx = FALSE, !.socket = FALSE]

\* ASRStream.close after the task ended, when __aexit__ raised: the failure
\* is swallowed and the fields are cleared all the same
CloseFinishRaised(a) == [CloseFinish(a) EXCEPT !.raised = TRUE]

\* a close() that lets the failure of __aexit__ out to its caller
CloseRaisesThrough(a) == a.ctx

\* does close() raise when the release of adapter a fails: never, the
\* try around __aexit__ ends in except Exception: pass
CloseRaises(a) == FALSE

\* the utterance a cancelled read loop was processing
CancelUtt(a) ==
    IF adapters[a].listen = "run" /\ adapters[a].u # 0
    THEN [utt EXCEPT ![adapters[a].u].st = "cancelled"]
    ELSE utt

(***************************************************************************)
(* Management connections (src/server.py, handler, mgmt_handler,           *)
(* _handle_start, _handle_stop).                                           *)
(***************************************************************************)

MgmtInit == [pc |-> "init", user |-> NoUser, alive |-> TRUE, langs |-> <<>>,
             src |-> "", bot |-> "", rec |-> NoRec, pids |-> {}, ad |-> NoAdapter,
             f |-> NoFrame]

\* the locals of a handler that is back in (or out of) its message loop
MgmtReset(m, pc) == [m EXCEPT !.pc = pc, !.langs = <<>>, !.src = "", !.bot = "",
                              !.rec = NoRec, !.pids = {}, !.ad = NoAdapter,
                              !.f = NoFrame]

\* the handler leaves its loop: finally: mgmt_clients.pop(ws, None)
MgmtLeave(c) ==
    /\ mgmt' = [mgmt EXCEPT ![c] = MgmtReset(@, "done")]
    /\ mgmt_clients' = PopClients(mgmt_clients, {c})

\* a handler that serves a management connection whatever verify_jwt answers
MgmtConnectOpen(c, token) ==
    /\ mgmt[c].pc = "init"
    /\ mgmt' = [mgmt EXCEPT ![c].pc = "idle", ![c].user = VerifyJwt(token)]
    /\ mgmt_clients' = Append(mgmt_clients, <<c, VerifyJwt(token)>>)
    /\ ev' = Ev("mgmt_connect", c, "ok",
               {StatusMsg(sess, bot_sessions, c, VerifyJwt(token))})
    /\ UNCHANGED <<sess, bot_sessions, listener_clients, adapters, recall, listener,
                   utt, received, tasks, botapi>>

\* handler, /mgmt branch, then mgmt_handler up to its message loop
MgmtConnect(c, token) ==
    /\ mgmt[c].pc = "init"
    /\ LET user == VerifyJwt(token)
       IN  IF user = NoUser
           THEN /\ mgmt' = [mgmt EXCEPT ![c].pc = "done"]
                /\ ev' = Ev("mgmt_rejected", c, "invalid", {})
                /\ UNCHANGED mgmt_clients
           ELSE /\ mgmt' = [mgmt EXCEPT ![c].pc = "idle", ![c].user = user]
                /\ mgmt_clients' = Append(mgmt_clients, <<c, user>>)
                /\ ev' = Ev("mgmt_connect", c, "ok",
                           {StatusMsg(sess, bot_sessions, c, user)})
    /\ UNCHANGED <<sess, bot_sessions, listener_clients, adapters, recall, listener,
                   utt, received, tasks, botapi>>

\* the peer of a management connection goes away
MgmtPeerDrop(c) ==
    /\ mgmt[c].pc \notin {"init", "done"}
    /\ mgmt[c].alive
    /\ mgmt' = [mgmt EXCEPT ![c].alive = FALSE]
    /\ ev' = Ev("mgmt_drop", c, "", {})
    /\ UNCHANGED <<sess, bot_sessions, mgmt_clients, listener_clients, adapters,
                   recall, listener, utt, received, tasks, botapi>>

\* async for raises ConnectionClosed on a dropped connection
MgmtExit(c) ==
    /\ mgmt[c].pc = "idle"
    /\ ~mgmt[c].alive
    /\ MgmtLeave(c)
    /\ ev' = Ev("mgmt_exit", c, "", {})
    /\ UNCHANGED <<sess, bot_sessions, listener_clients, adapters, recall, listener,
                   utt, received, tasks, botapi>>

\* a message that is not JSON, or whose action is neither start nor stop
MgmtBadMessage(c, kind) ==
    /\ mgmt[c].pc = "idle"
    /\ mgmt[c].alive
    /\ ev' = Ev(kind, c, "",
                {ErrorMsg(c, IF kind = "mgmt_bad_json" THEN "Invalid JSON"
                                                        ELSE "Unknown action")})
    /\ UNCHANGED <<sess, bot_sessions, mgmt_clients, listener_clients, adapters, mgmt,
                   recall, listener, utt, received, tasks, botapi>>

\* _handle_start up to its first await: the checks, then create_bot
StartBegin(c, url_ok, src, langs) ==
    /\ mgmt[c].pc = "idle"
    /\ mgmt[c].alive
    /\ IF ~url_ok
       THEN /\ ev' = Ev("start_rejected", c, "",
                        {ErrorMsg(c, "Missing meeting_url")})
            /\ UNCHANGED mgmt
       ELSE IF langs = <<>>
       THEN /\ ev' = Ev("start_rejected", c, "",
                        {ErrorMsg(c, "Select at least one target language")})
            /\ UNCHANGED mgmt
       ELSE /\ ev' = Ev("start_begin", c, "", {})
            /\ mgmt' = [mgmt EXCEPT ![c].pc = "create", ![c].langs = langs,
                                    ![c].src = src]
    /\ UNCHANGED <<sess, bot_sessions, mgmt_clients, listener_clients, adapters,
                   recall, listener, utt, received, tasks, botapi>>

\* _handle_start after create_bot answered for the first remaining language:
\* either the next create_bot call or broadcast_status up to its first await
StartAfterCreate(c, k, res, out) ==
    LET rest == Tail(mgmt[c].langs)
        run == BroadcastStatusRun(NewFrame(mgmt_clients), sess', bot_sessions')
    IN  IF rest # <<>>
        THEN /\ mgmt' = [mgmt EXCEPT ![c].langs = rest]
             /\ ev' = Ev(k, c, res, out)
             /\ UNCHANGED mgmt_clients
        ELSE /\ ev' = Ev(k, c, res, out \cup run.out)
             /\ mgmt_clients' = run.clients
             /\ mgmt' = [mgmt EXCEPT ![c] =
                            IF run.res = "yield"
                            THEN [MgmtReset(@, "start_bcast") EXCEPT !.f = run.f]
                            ELSE MgmtReset(@, "idle")]

\* the registry once _handle_start has built the session of a created bot
RegisterStarted(reg, bot, rec) == [reg EXCEPT ![bot] = rec]

\* create_bot returned a bot id
CreateOk(c, bot) ==
    /\ mgmt[c].pc = "create"
    /\ bot \notin botapi.created
    /\ Len(sess) < MaxSess
    /\ sess' = Append(sess, NewSession(bot, mgmt[c].user, mgmt[c].src,
                                       Head(mgmt[c].langs)))
    /\ bot_sessions' = RegisterStarted(bot_sessions, bot, Len(sess) + 1)
    /\ tasks' = tasks \cup {Task("create_session", mgmt[c].user, bot, 0, "in_call",
                                 <<>>, NoDuration)}
    /\ botapi' = [botapi EXCEPT !.created = @ \cup {bot}]
    /\ StartAfterCreate(c, "create_ok", "ok", {})
    /\ UNCHANGED <<listener_clients, adapters, recall, listener, utt, received>>

\* a failed create_bot that is only logged
CreateFailSilent(c) == {}

\* what _handle_start sends to the requester when create_bot raised
CreateFailReply(c) == {ErrorMsg(c, "Failed to create bot")}

\* create_bot raised
CreateFail(c) ==
    /\ mgmt[c].pc = "create"
    /\ UNCHANGED <<sess, bot_sessions, listener_clients, adapters, recall, listener,
                   utt, received, tasks, botapi>>
    /\ IF mgmt[c].alive
       THEN StartAfterCreate(c, "create_fail", "raise", CreateFailReply(c))
       ELSE \* the error cannot be sent: ConnectionClosed ends the handler
            /\ MgmtLeave(c)
            /\ ev' = Ev("create_fail", c, "raise", {})

\* broadcast_status of _handle_start resumes after a send
StartBroadcastStep(c) ==
    /\ mgmt[c].pc = "start_bcast"
    /\ LET run == BroadcastStatusRun(mgmt[c].f, sess, bot_sessions)
       IN  /\ ev' = Ev("start_bcast", c, run.res, run.out)
           /\ CASE run.res = "yield" ->
                     /\ mgmt' = [mgmt EXCEPT ![c].f = run.f]
                     /\ UNCHANGED mgmt_clients
                [] run.res = "done" ->
                     /\ mgmt' = [mgmt EXCEPT ![c] = MgmtReset(@, "idle")]
                     /\ mgmt_clients' = run.clients
                [] OTHER ->
                     \* RuntimeError leaves mgmt_handler through its finally
                     MgmtLeave(c)
    /\ UNCHANGED <<sess, bot_sessions, listener_clients, adapters, recall, listener,
                   utt, received, tasks, botapi>>

\* an ownership check that lets every requester through
OwnsAlways(s, user) == TRUE

\* _handle_stop: session.user_id != user_id is the refusal
Owns(s, user) == s.user_id = user

\* _handle_stop up to its first await: the lookup, the ownership check, then
\* stop_bot
StopBegin(c, bot) ==
    /\ mgmt[c].pc = "idle"
    /\ mgmt[c].alive
    /\ IF ~Registered(bot)
       THEN /\ ev' = Ev("stop_rejected", c, "", {ErrorMsg(c, "Unknown bot")})
            /\ UNCHANGED <<mgmt, botapi>>
       ELSE IF ~Owns(sess[bot_sessions[bot]], mgmt[c].user)
       THEN /\ ev' = Ev("stop_rejected", c, "",
                        {ErrorMsg(c, "Not authorized to stop this bot")})
            /\ UNCHANGED <<mgmt, botapi>>
       ELSE /\ ev' = Ev("stop_begin", c, "", {})
            /\ mgmt' = [mgmt EXCEPT ![c].pc = "stop_bot", ![c].bot = bot,
                                    ![c].rec = bot_sessions[bot]]
            /\ botapi' = [botapi EXCEPT !.leave = Append(@, bot)]
    /\ UNCHANGED <<sess, bot_sessions, mgmt_clients, listener_clients, adapters,
                   recall, listener, utt, received, tasks>>

\* round(duration, 1): tenths of a second, ties to even
Round1(bytes) ==
    LET unit == BytesPerSec \div 10
        q == bytes \div unit
        r == bytes % unit
    IN  IF 2 * r > unit THEN q + 1
        ELSE IF 2 * r < unit THEN q
        ELSE IF q % 2 = 0 THEN q ELSE q + 1

\* a flush that loses the last clip of each buffer
StopTasksTruncated(s, bot) ==
    {Task("upload_text_file:subtitles.srt", s.user_id, bot, 0, "",
          SubSeq(s.srt_buffer, 1, Len(s.srt_buffer) - 1), NoDuration),
     Task("upload_text_file:transcript.jsonl", s.user_id, bot, 0, "",
          SubSeq(s.transcript_buffer, 1, Len(s.transcript_buffer) - 1), NoDuration),
     Task("update_session_status", "", bot, s.clip_count, "stopped", <<>>,
          NoDuration)}

\* the detached tasks _handle_stop creates for session s
StopTasks(s, bot) ==
    (IF s.srt_buffer # <<>>
     THEN {Task("upload_text_file:subtitles.srt", s.user_id, bot, 0, "", s.srt_buffer,
                NoDuration)}
     ELSE {})
    \cup
    (IF s.transcript_buffer # <<>>
     THEN {Task("upload_text_file:transcript.jsonl", s.user_id, bot, 0, "",
                s.transcript_buffer, NoDuration)}
     ELSE {})
    \cup
    {Task("update_session_status", "", bot, s.clip_count, "stopped", <<>>,
          Round1(s.audio_offset))}

\* a stop that leaves the session in the registry
UnregisterNot(reg, bot) == reg

\* bot_sessions.pop(bot_id, None)
Unregister(reg, bot) == [reg EXCEPT ![bot] = NoRec]

\* _handle_stop from the end of its cleanup loop: status, broadcast_status up
\* to its next await and, once that is done, the flush and the removal
StopAfterClose(c, S, f, k, res) ==
    LET run == BroadcastStatusRun(f, S, bot_sessions)
    IN  /\ ev' = Ev(CASE run.res = "done" -> "stop_done"
                       [] run.res = "error" -> "stop_error"
                       [] OTHER -> k, c, res, run.out)
        /\ sess' = S
        /\ CASE run.res = "yield" ->
                  /\ mgmt' = [mgmt EXCEPT ![c].pc = "stop_bcast", ![c].f = run.f,
                                          ![c].pids = {}, ![c].ad = NoAdapter]
                  /\ UNCHANGED <<mgmt_clients, bot_sessions, tasks>>
             [] run.res = "done" ->
                  /\ mgmt' = [mgmt EXCEPT ![c] = MgmtReset(@, "idle")]
                  /\ mgmt_clients' = run.clients
                  /\ tasks' = tasks \cup StopTasks(S[mgmt[c].rec], mgmt[c].bot)
                  /\ bot_sessions' = Unregister(bot_sessions, mgmt[c].bot)
             [] OTHER ->
                  \* RuntimeError leaves mgmt_handler through its finally
                  /\ MgmtLeave(c)
                  /\ UNCHANGED <<bot_sessions, tasks>>

\* the cleanup loop of _handle_stop, from one pop to the await of close()
\* (A: the adapters as the segment has left them so far)
StopLoop(c, A, pids, k, res) ==
    LET rid == mgmt[c].rec
        cand == {p \in pids : sess[rid].asr_streams[p] # NoAdapter}
    IN  IF cand # {}
        THEN \E p \in cand :
               LET a == sess[rid].asr_streams[p]
               IN  /\ sess' = [sess EXCEPT ![rid].asr_streams[p] = NoAdapter]
                   /\ adapters' = [A EXCEPT ![a] = CloseBegin(@)]
                   /\ utt' = CancelUtt(a)
                   /\ mgmt' = [mgmt EXCEPT ![c].pc = "stop_close", ![c].ad = a,
                                           ![c].pids = pids \ {p}]
                   /\ ev' = Ev(k, c, res, {})
                   /\ UNCHANGED <<mgmt_clients, bot_sessions, tasks>>
        ELSE /\ adapters' = A
             /\ UNCHANGED utt
             /\ StopAfterClose(c, [sess EXCEPT ![rid].status = "stopped"],
                               NewFrame(mgmt_clients), k, res)

\* stop_bot returned or raised (the failure is logged and ignored)
StopBotReturn(c, ok) ==
    /\ mgmt[c].pc = "stop_bot"
    /\ StopLoop(c, adapters, StreamKeys(sess[mgmt[c].rec]), "stop_bot_return",
                IF ok THEN "ok" ELSE "raise")
    /\ UNCHANGED <<listener_clients, recall, listener, received, botapi>>

\* stream.close() returned to _handle_stop
StopCloseResume(c) ==
    /\ mgmt[c].pc = "stop_close"
    /\ StopLoop(c, [adapters EXCEPT ![mgmt[c].ad] = CloseFinish(@)], mgmt[c].pids,
                "stop_closed", "")
    /\ UNCHANGED <<listener_clients, recall, listener, received, botapi>>

\* the release of the adapter failed inside stream.close()
StopCloseFail(c) ==
    /\ mgmt[c].pc = "stop_close"
    /\ adapters[mgmt[c].ad].ctx
    /\ IF CloseRaises(adapters[mgmt[c].ad])
       THEN \* the exception leaves _handle_stop and mgmt_handler's loop
            /\ MgmtLeave(c)
            /\ ev' = Quiet
            /\ UNCHANGED <<sess, bot_sessions, adapters, utt, tasks>>
       ELSE StopLoop(c, [adapters EXCEPT ![mgmt[c].ad] = CloseFinishRaised(@)],
                     mgmt[c].pids, "stop_closed", "raise")
    /\ UNCHANGED <<listener_clients, recall, listener, received, botapi>>

\* broadcast_status of _handle_stop resumes after a send
StopBroadcastStep(c) ==
    /\ mgmt[c].pc = "stop_bcast"
    /\ StopAfterClose(c, sess, mgmt[c].f, "stop_bcast", "")
    /\ UNCHANGED <<listener_clients, adapters, recall, listener, utt, received, botapi>>

(***************************************************************************)
(* Bot-audio connections (src/server.py, recall_handler).                  *)
(***************************************************************************)

NoMsg == [event |-> "", bot |-> "", pid |-> "", name |-> "", buf |-> FALSE]

RecallInit == [pc |-> "init", rec |-> NoRec, pid |-> "", ad |-> NoAdapter,
               pids |-> {}, f |-> NoFrame, m |-> NoMsg]

Names == {"Alice", "Translator (ES)"}

\* a test of the participant name that no name passes
IsTranslatorNever(name) == FALSE

\* participant_name.startswith("Translator")
IsTranslator(name) == name = "Translator (ES)"

\* the event envelopes a bot sends: audio chunks, participant leaves, others
RecallMsgs ==
    [event : {"audio_separate_raw.data"}, bot : BotIds \cup {""}, pid : Pids,
     name : Names, buf : BOOLEAN]
    \cup [event : {"participant_events.leave"}, bot : BotIds \cup {""},
          pid : Pids \cup {""}, name : {""}, buf : {FALSE}]
    \cup [event : {"other"}, bot : BotIds \cup {""}, pid : {""}, name : {""},
          buf : {FALSE}]

\* the new connection is accepted and recall_handler waits for a message
RecallConnect(r) ==
    /\ recall[r].pc = "init"
    /\ recall' = [recall EXCEPT ![r].pc = "idle"]
    /\ ev' = Quiet
    /\ UNCHANGED <<sess, bot_sessions, mgmt_clients, listener_clients, adapters, mgmt,
                   listener, utt, received, tasks, botapi>>

\* a message that is not JSON ends the handler
RecallBadJsonFatal(r) ==
    /\ recall[r].pc = "idle"
    /\ recall' = [recall EXCEPT ![r].pc = "done"]
    /\ ev' = Quiet
    /\ UNCHANGED <<sess, bot_sessions, mgmt_clients, listener_clients, adapters, mgmt,
                   listener, utt, received, tasks, botapi>>

\* a message that is not JSON is logged and skipped
RecallBadJson(r) ==
    /\ recall[r].pc = "idle"
    /\ ev' = Quiet
    /\ UNCHANGED <<sess, bot_sessions, mgmt_clients, listener_clients, adapters, mgmt,
                   recall, listener, utt, received, tasks, botapi>>

\* the finally block of recall_handler, from one pop to the await of close()
\* (S, A: sessions and adapters as the segment has left them so far)
RecallFinLoop(r, rid, S, A, pids) ==
    LET cand == IF rid = NoRec THEN {}
                ELSE {p \in pids : S[rid].asr_streams[p] # NoAdapter}
    IN  IF cand # {}
        THEN \E p \in cand :
               LET a == S[rid].asr_streams[p]
               IN  /\ sess' = [S EXCEPT ![rid].asr_streams[p] = NoAdapter]
                   /\ adapters' = [A EXCEPT ![a] = CloseBegin(@)]
                   /\ utt' = CancelUtt(a)
                   /\ recall' = [recall EXCEPT ![r] =
                          [RecallInit EXCEPT !.pc = "fin_close", !.rec = rid, !.ad = a,
                                             !.pids = pids \ {p}]]
                   /\ ev' = Quiet
        ELSE /\ sess' = S
             /\ adapters' = A
             /\ UNCHANGED utt
             /\ recall' = [recall EXCEPT ![r] = [RecallInit EXCEPT !.pc = "done",
                                                                   !.rec = rid]]
             /\ ev' = Quiet

\* recall_handler from the dispatch on the event to its next await
\* (rid: the session the connection is bound to, S: the sessions so far)
RecallEvent(r, m, rid, S, k, res, out) ==
    LET idle == [RecallInit EXCEPT !.pc = "idle", !.rec = rid]
        skip == /\ recall' = [recall EXCEPT ![r] = idle]
                /\ sess' = S
                /\ ev' = Ev(k, r, res, out)
                /\ UNCHANGED <<adapters, utt>>
    IN  CASE m.event = "audio_separate_raw.data" ->
               IF rid = NoRec \/ IsTranslator(m.name) \/ ~m.buf
               THEN skip
               ELSE IF S[rid].asr_streams[m.pid] = NoAdapter
               THEN \* a new ASRStream, then await stream.start()
                    /\ Len(adapters) < MaxAdapters
                    /\ adapters' = Append(adapters,
                                          StartBeginAdapter(NewAdapter(rid, m.pid)))
                    /\ recall' = [recall EXCEPT ![r] =
                           [idle EXCEPT !.pc = "start", !.pid = m.pid,
                                        !.ad = Len(adapters) + 1]]
                    /\ sess' = S
                    /\ ev' = Ev(k, r, res, out)
                    /\ UNCHANGED utt
               ELSE \* await send_audio on the participant's stream
                    /\ adapters' = [adapters EXCEPT ![S[rid].asr_streams[m.pid]] =
                                        SendAudio(@)]
                    /\ recall' = [recall EXCEPT ![r] = idle]
                    /\ sess' = S
                    /\ ev' = Ev(k, r, res, out)
                    /\ UNCHANGED utt
          [] m.event = "participant_events.leave" ->
               IF rid = NoRec \/ m.pid = "" \/ S[rid].asr_streams[m.pid] = NoAdapter
               THEN skip
               ELSE LET a == S[rid].asr_streams[m.pid]
                    IN  /\ sess' = [S EXCEPT ![rid].asr_streams[m.pid] = NoAdapter]
                        /\ adapters' = [adapters EXCEPT ![a] = CloseBegin(@)]
                        /\ utt' = CancelUtt(a)
                        /\ recall' = [recall EXCEPT ![r] =
                               [idle EXCEPT !.pc = "leave_close", !.ad = a]]
                        /\ ev' = Ev(k, r, res, out)
          [] OTHER -> skip

\* a fallback that builds its session for an id the message did not carry
FallbackSessionOther(bot) == NewSession("", NoUser, FallbackSource, DefaultTarget)

\* the session a fallback builds for a bot id the registry does not know
FallbackSession(bot) == NewSession(bot, NoUser, FallbackSource, DefaultTarget)

\* one message of the connection's loop, up to the next await
RecallMessage(r, m) ==
    /\ recall[r].pc = "idle"
    /\ IF recall[r].rec # NoRec \/ m.bot = ""
       THEN \* already bound, or nothing to bind with
            /\ RecallEvent(r, m, recall[r].rec, sess, "recall_msg", m.event, {})
            /\ UNCHANGED <<bot_sessions, mgmt_clients>>
       ELSE IF Registered(m.bot)
       THEN /\ RecallEvent(r, m, bot_sessions[m.bot], sess, "recall_bind", m.event, {})
            /\ UNCHANGED <<bot_sessions, mgmt_clients>>
       ELSE \* unknown bot: fallback session, then broadcast_status
            /\ Len(sess) < MaxSess
            /\ bot_sessions' = [bot_sessions EXCEPT ![m.bot] = Len(sess) + 1]
            /\ LET S == Append(sess, FallbackSession(m.bot))
                   run == BroadcastStatusRun(NewFrame(mgmt_clients), S, bot_sessions')
               IN  IF run.res = "yield"
                   THEN /\ sess' = S
                        /\ recall' = [recall EXCEPT ![r] =
                               [RecallInit EXCEPT !.pc = "fb_bcast", !.rec = Len(S),
                                                  !.f = run.f, !.m = m]]
                        /\ ev' = Ev("recall_fallback", r, m.event, run.out)
                        /\ UNCHANGED <<mgmt_clients, adapters, utt>>
                   ELSE /\ mgmt_clients' = run.clients
                        /\ RecallEvent(r, m, Len(S), S, "recall_fallback", m.event, {})
    /\ UNCHANGED <<listener_clients, mgmt, listener, received, tasks, botapi>>

\* broadcast_status of the fallback resumes after a send
RecallBroadcastStep(r) ==
    /\ recall[r].pc = "fb_bcast"
    /\ LET run == BroadcastStatusRun(recall[r].f, sess, bot_sessions)
       IN  CASE run.res = "yield" ->
                  /\ recall' = [recall EXCEPT ![r].f = run.f]
                  /\ ev' = Ev("recall_bcast", r, "", run.out)
                  /\ UNCHANGED <<sess, adapters, utt, mgmt_clients>>
             [] run.res = "done" ->
                  /\ mgmt_clients' = run.clients
                  /\ RecallEvent(r, recall[r].m, recall[r].rec, sess, "recall_bcast",
                                 recall[r].m.event, {})
             [] OTHER ->
                  \* RuntimeError leaves the loop through the finally block
                  /\ UNCHANGED mgmt_clients
                  /\ RecallFinLoop(r, recall[r].rec, sess, adapters,
                                   StreamKeys(sess[recall[r].rec]))
    /\ UNCHANGED <<bot_sessions, listener_clients, mgmt, listener, received, tasks,
                   botapi>>

\* the map entry recall_handler writes once stream.start() returned
RegisterStream(s, pid, a) == [s EXCEPT !.asr_streams[pid] = a]

\* stream.start() returned: the stream is registered and fed the chunk
RecallStartOk(r) ==
    /\ recall[r].pc = "start"
    /\ LET a == recall[r].ad
       IN  /\ adapters' = [adapters EXCEPT ![a] = SendAudio(StartedAdapter(@))]
           /\ sess' = [sess EXCEPT ![recall[r].rec] =
                          RegisterStream(@, recall[r].pid, a)]
           /\ recall' = [recall EXCEPT ![r] = [RecallInit EXCEPT !.pc = "idle",
                                                                 !.rec = recall[r].rec]]
           /\ ev' = Quiet
    /\ UNCHANGED <<bot_sessions, mgmt_clients, listener_clients, mgmt, listener, utt,
                   received, tasks, botapi>>

\* stream.start() raised: the exception leaves the loop through the finally block
RecallStartFail(r) ==
    /\ recall[r].pc = "start"
    /\ RecallFinLoop(r, recall[r].rec, sess, adapters, StreamKeys(sess[recall[r].rec]))
    /\ UNCHANGED <<bot_sessions, mgmt_clients, listener_clients, mgmt, listener,
                   received, tasks, botapi>>

\* the connection closed: async for raises ConnectionClosed, then the finally block
RecallClosed(r) ==
    /\ recall[r].pc = "idle"
    /\ RecallFinLoop(r, recall[r].rec, sess, adapters,
                     IF recall[r].rec = NoRec THEN {}
                     ELSE StreamKeys(sess[recall[r].rec]))
    /\ UNCHANGED <<bot_sessions, mgmt_clients, listener_clients, mgmt, listener,
                   received, tasks, botapi>>

\* stream.close() returned to recall_handler
RecallCloseResume(r) ==
    /\ recall[r].pc \in {"leave_close", "fin_close"}
    /\ LET A == [adapters EXCEPT ![recall[r].ad] = CloseFinish(@)]
       IN  IF recall[r].pc = "leave_close"
           THEN /\ adapters' = A
                /\ recall' = [recall EXCEPT ![r] = [RecallInit EXCEPT !.pc = "idle",
                                                        !.rec = recall[r].rec]]
                /\ ev' = Quiet
                /\ UNCHANGED <<sess, utt>>
           ELSE RecallFinLoop(r, recall[r].rec, sess, A, recall[r].pids)
    /\ UNCHANGED <<bot_sessions, mgmt_clients, listener_clients, mgmt, listener,
                   received, tasks, botapi>>

(***************************************************************************)
(* Listener connections (src/server.py, listen_handler).                   *)
(***************************************************************************)

LangKeys == TargetLangs \cup {DefaultTarget} \cup ({Lower(q) : q \in ListenQueries} \ {""})

ListenerInit == [pc |-> "init", lang |-> "", alive |-> TRUE]

\* listener_clients[lang].add(ws)
Subscribe(table, lang, ws) == [table EXCEPT ![lang] = @ \cup {ws}]

\* listen_handler up to its message loop
ListenConnect(l, q) ==
    /\ listener[l].pc = "init"
    /\ LET lang == Lower(q)
       IN  IF lang = ""
           THEN /\ listener' = [listener EXCEPT ![l].pc = "done"]
                /\ ev' = Quiet
                /\ UNCHANGED listener_clients
           ELSE /\ listener' = [listener EXCEPT ![l].pc = "open", ![l].lang = lang]
                /\ listener_clients' = Subscribe(listener_clients, lang, l)
                /\ ev' = Quiet
    /\ UNCHANGED <<sess, bot_sessions, mgmt_clients, adapters, mgmt, recall, utt,
                   received, tasks, botapi>>

\* the peer of a listener connection goes away
ListenPeerDrop(l) ==
    /\ listener[l].pc = "open"
    /\ listener[l].alive
    /\ listener' = [listener EXCEPT ![l].alive = FALSE]
    /\ ev' = Quiet
    /\ UNCHANGED <<sess, bot_sessions, mgmt_clients, listener_clients, adapters, mgmt,
                   recall, utt, received, tasks, botapi>>

\* async for ends on a dropped connection: finally: discard(ws)
ListenExit(l) ==
    /\ listener[l].pc = "open"
    /\ ~listener[l].alive
    /\ listener' = [listener EXCEPT ![l].pc = "done"]
    /\ listener_clients' = [listener_clients EXCEPT ![listener[l].lang] = @ \ {l}]
    /\ ev' = Quiet
    /\ UNCHANGED <<sess, bot_sessions, mgmt_clients, adapters, mgmt, recall, utt,
                   received, tasks, botapi>>

(***************************************************************************)
(* The per-utterance pipeline (src/pipeline/asr.py _handle_message,        *)
(* src/server.py on_utterance, broadcast_audio, save_recording;            *)
(* src/pipeline/translator.py translate; src/pipeline/tts.py synthesize).  *)
(* It runs inside the adapter's read-loop task.                            *)
(***************************************************************************)

NewUtt(a, text) ==
    [ad |-> a, rec |-> adapters[a].rec, pid |-> adapters[a].pid, text |-> text,
     detected |-> "", translated |-> "", synth |-> FALSE, st |-> "run", n |-> 0,
     conc |-> {v \in 1..Len(utt) : utt[v].st = "run"}]

\* the adapter's pipeline locals once on_utterance is over
PipelineIdle(a) == [a EXCEPT !.pc = "read", !.u = 0, !.size = 0, !.seen = {},
                             !.used = 0, !.stale = {}]

\* _handle_message: a final, non-empty result reaches on_utterance, which
\* awaits translate
Utterance(a, text) ==
    /\ a \in 1..Len(adapters)
    /\ adapters[a].listen = "run"
    /\ adapters[a].pc = "read"
    /\ adapters[a].socket
    /\ adapters[a].fed
    /\ Len(utt) < MaxUtt
    /\ utt' = Append(utt, NewUtt(a, text))
    /\ adapters' = [adapters EXCEPT ![a].pc = "translate", ![a].u = Len(utt) + 1]
    /\ ev' = Quiet
    /\ UNCHANGED <<sess, bot_sessions, mgmt_clients, listener_clients, mgmt, recall,
                   listener, received, tasks, botapi>>

\* _handle_message returns without calling back: an interim result, an empty
\* transcript, or an event that is no result
RecognizerOther(a) ==
    /\ a \in 1..Len(adapters)
    /\ adapters[a].listen = "run"
    /\ adapters[a].pc = "read"
    /\ adapters[a].socket
    /\ ev' = Quiet
    /\ UNCHANGED <<sess, bot_sessions, mgmt_clients, listener_clients, adapters, mgmt,
                   recall, listener, utt, received, tasks, botapi>>

\* an exception leaves on_utterance and _handle_message into the
\* recognizer's read loop, which the SDK either ends or keeps running
PipelineRaise(a, survives) ==
    /\ adapters' = [adapters EXCEPT ![a] =
                       [PipelineIdle(@) EXCEPT !.listen = IF survives THEN "run"
                                                                    ELSE "failed"]]
    /\ utt' = [utt EXCEPT ![adapters[a].u].st = "raised"]
    /\ ev' = Quiet

\* the comparison of translate without the lower-casing of the reply
TranslateSkipsExact(detected, target) == detected = target

\* translate: detected = ...lower(); if detected == target_lang: return None
TranslateSkips(detected, target) == Lower(detected) = target

\* translate answered 200 with a translation and a detected language
TranslateOk(a, detected, translated) ==
    /\ a \in 1..Len(adapters)
    /\ adapters[a].listen = "run"
    /\ adapters[a].pc = "translate"
    /\ IF TranslateSkips(detected, sess[adapters[a].rec].target_lang)
       THEN /\ adapters' = [adapters EXCEPT ![a] = PipelineIdle(@)]
            /\ utt' = [utt EXCEPT ![adapters[a].u].st = "skipped",
                                  ![adapters[a].u].detected = detected]
       ELSE /\ adapters' = [adapters EXCEPT ![a].pc = "synth"]
            /\ utt' = [utt EXCEPT ![adapters[a].u].translated = translated,
                                  ![adapters[a].u].detected = detected]
    /\ ev' = Quiet
    /\ UNCHANGED <<sess, bot_sessions, mgmt_clients, listener_clients, mgmt, recall,
                   listener, received, tasks, botapi>>

\* translate answered with another status than 200: it returns None
TranslateError(a) ==
    /\ a \in 1..Len(adapters)
    /\ adapters[a].listen = "run"
    /\ adapters[a].pc = "translate"
    /\ adapters' = [adapters EXCEPT ![a] = PipelineIdle(@)]
    /\ utt' = [utt EXCEPT ![adapters[a].u].st = "failed"]
    /\ ev' = Quiet
    /\ UNCHANGED <<sess, bot_sessions, mgmt_clients, listener_clients, mgmt, recall,
                   listener, received, tasks, botapi>>

\* translate raised (the request failed, or the reply has no translation)
TranslateRaise(a, survives) ==
    /\ a \in 1..Len(adapters)
    /\ adapters[a].listen = "run"
    /\ adapters[a].pc = "translate"
    /\ PipelineRaise(a, survives)
    /\ UNCHANGED <<sess, bot_sessions, mgmt_clients, listener_clients, mgmt, recall,
                   listener, received, tasks, botapi>>

\* synthesize raised
SynthRaise(a, survives) ==
    /\ a \in 1..Len(adapters)
    /\ adapters[a].listen = "run"
    /\ adapters[a].pc = "synth"
    /\ PipelineRaise(a, survives)
    /\ UNCHANGED <<sess, bot_sessions, mgmt_clients, listener_clients, mgmt, recall,
                   listener, received, tasks, botapi>>

\* a fan-out to the listeners of every language
AudioClientsAll(table, lang) == UNION {table[k] : k \in DOMAIN table}

\* the listeners broadcast_audio iterates for a clip of language lang
AudioClients(table, lang) == table[lang]

\* broadcast_audio from its start, or from the await of a send, up to its
\* next await, and save_recording once it returned
\* (ad: the adapter record with the iteration state so far, U: the utterance
\* history so far)
BroadcastAudio(a, ad, U) ==
    LET rid == ad.rec
        lang == sess[rid].target_lang
        clients == AudioClients(listener_clients, lang)
        u == ad.u
    IN  IF Cardinality(clients) # ad.used
        THEN \* the set changed size under the iterator: RuntimeError
             /\ \E survives \in BOOLEAN : PipelineRaise(a, survives)
             /\ UNCHANGED <<sess, listener_clients, received, tasks>>
        ELSE IF clients \ ad.seen = {}
        THEN \* the pass is over: prune the stale listeners, record the clip
             /\ listener_clients' = [listener_clients EXCEPT ![lang] = @ \ ad.stale]
             /\ sess' = [sess EXCEPT ![rid] =
                            SaveRecording(@, ad.size, utt[u].text, utt[u].translated)]
             /\ tasks' = tasks \cup SaveRecordingTasks(sess[rid])
             /\ adapters' = [adapters EXCEPT ![a] = PipelineIdle(ad)]
             /\ utt' = [U EXCEPT ![u].st = "clip", ![u].n = sess'[rid].clip_count]
             /\ ev' = Quiet
             /\ UNCHANGED received
        ELSE \E l \in clients \ ad.seen :
               /\ IF listener[l].alive
                  THEN /\ received' = [received EXCEPT ![l] = Append(@, u)]
                       /\ adapters' = [adapters EXCEPT ![a] =
                              [ad EXCEPT !.pc = "bcast", !.seen = @ \cup {l}]]
                  ELSE /\ UNCHANGED received
                       /\ adapters' = [adapters EXCEPT ![a] =
                              [ad EXCEPT !.pc = "bcast", !.seen = @ \cup {l},
                                         !.stale = @ \cup {l}]]
               /\ ev' = Quiet
               /\ utt' = U
               /\ UNCHANGED <<sess, listener_clients, tasks>>

\* synthesize returned the audio: broadcast_audio starts
SynthOk(a, size) ==
    /\ a \in 1..Len(adapters)
    /\ adapters[a].listen = "run"
    /\ adapters[a].pc = "synth"
    /\ LET lang == sess[adapters[a].rec].target_lang
           clients == AudioClients(listener_clients, lang)
       IN  BroadcastAudio(a, [adapters[a] EXCEPT !.size = size, !.seen = {},
                                                 !.used = Cardinality(clients),
                                                 !.stale = {}],
                          [utt EXCEPT ![adapters[a].u].synth = TRUE])
    /\ UNCHANGED <<bot_sessions, mgmt_clients, mgmt, recall, listener, botapi>>

\* broadcast_audio resumes after a send
BroadcastAudioStep(a) ==
    /\ a \in 1..Len(adapters)
    /\ adapters[a].listen = "run"
    /\ adapters[a].pc = "bcast"
    /\ BroadcastAudio(a, adapters[a], utt)
    /\ UNCHANGED <<bot_sessions, mgmt_clients, mgmt, recall, listener, botapi>>

(***************************************************************************)
(* Detached storage tasks (src/supabase_client.py, upload_clip).           *)
(***************************************************************************)

\* a failed upload that takes the clip back out of the recording
UploadClipUndoes(s, ok) ==
    IF ok \/ s.clip_count = 0 THEN s
    ELSE [s EXCEPT !.clip_count = @ - 1,
                   !.srt_buffer = SubSeq(@, 1, Len(@) - 1),
                   !.transcript_buffer = SubSeq(@, 1, Len(@) - 1)]

\* what the end of an upload_clip task does to the session s it was created
\* for: nothing, stored or not (a failure is caught and logged in the task)
UploadClipDone(s, ok) == s

\* the detached upload_clip task t ends: the clip is stored, or the upload
\* raised
UploadClip(t, ok) ==
    /\ t \in tasks
    /\ t.kind = "upload_clip"
    /\ t.done = "pending"
    /\ tasks' = (tasks \ {t}) \cup {[t EXCEPT !.done = IF ok THEN "stored" ELSE "failed"]}
    /\ sess' = [i \in DOMAIN sess |->
                   IF sess[i].bot_id = t.bot /\ sess[i].user_id = t.user
                   THEN UploadClipDone(sess[i], ok) ELSE sess[i]]
    /\ ev' = Quiet
    /\ UNCHANGED <<bot_sessions, mgmt_clients, listener_clients, adapters, mgmt,
                   recall, listener, utt, received, botapi>>

(***************************************************************************)
(* The system.                                                             *)
(***************************************************************************)

Init ==
    /\ sess = <<>>
    /\ bot_sessions = [b \in BotIds |-> NoRec]
    /\ mgmt_clients = <<>>
    /\ listener_clients = [k \in LangKeys |-> {}]
    /\ adapters = <<>>
    /\ mgmt = [c \in MgmtConns |-> MgmtInit]
    /\ recall = [r \in RecallConns |-> RecallInit]
    /\ listener = [l \in ListenConns |-> ListenerInit]
    /\ utt = <<>>
    /\ received = [l \in ListenConns |-> <<>>]
    /\ tasks = {}
    /\ botapi = [created |-> {}, leave |-> <<>>]
    /\ ev = Quiet

StartLangs == {<<>>, <<"es">>, <<"fr">>, <<"es", "fr">>}

MgmtNext ==
    \E c \in MgmtConns :
        \/ \E t \in Tokens : MgmtConnect(c, t)
        \/ MgmtPeerDrop(c)
        \/ MgmtExit(c)
        \/ \E k \in {"mgmt_bad_json", "mgmt_bad_action"} : MgmtBadMessage(c, k)
        \/ \E ok \in BOOLEAN, langs \in StartLangs : StartBegin(c, ok, "en", langs)
        \/ \E b \in BotIds : CreateOk(c, b)
        \/ CreateFail(c)
        \/ StartBroadcastStep(c)
        \/ \E b \in BotIds : StopBegin(c, b)
        \/ \E ok \in BOOLEAN : StopBotReturn(c, ok)
        \/ StopCloseResume(c)
        \/ StopCloseFail(c)
        \/ StopBroadcastStep(c)

RecallNext ==
    \E r \in RecallConns :
        \/ RecallConnect(r)
        \/ RecallBadJson(r)
        \/ \E m \in RecallMsgs : RecallMessage(r, m)
        \/ RecallBroadcastStep(r)
        \/ RecallStartOk(r)
        \/ RecallStartFail(r)
        \/ RecallClosed(r)
        \/ RecallCloseResume(r)

ListenNext ==
    \E l \in ListenConns :
        \/ \E q \in ListenQueries : ListenConnect(l, q)
        \/ ListenPeerDrop(l)
        \/ ListenExit(l)

AdapterNext ==
    \E a \in 1..MaxAdapters :
        \/ \E t \in Texts : Utterance(a, t)
        \/ RecognizerOther(a)
        \/ \E d \in DetectedLangs, t \in Translations : TranslateOk(a, d, t)
        \/ TranslateError(a)
        \/ \E sv \in BOOLEAN : TranslateRaise(a, sv)
        \/ \E sv \in BOOLEAN : SynthRaise(a, sv)
        \/ \E size \in Mp3Sizes : SynthOk(a, size)
        \/ BroadcastAudioStep(a)

TaskNext == \E t \in tasks, ok \in BOOLEAN : UploadClip(t, ok)

Next == MgmtNext \/ RecallNext \/ ListenNext \/ AdapterNext \/ TaskNext

Spec == Init /\ [][Next]_vars

(***************************************************************************)
(* Scenarios: sub-systems of Next with fewer connections and inputs.       *)
(* Every behaviour of a scenario is a behaviour of Spec.                   *)
(***************************************************************************)

AudioMsg(bot, pid) ==
    [event |-> "audio_separate_raw.data", bot |-> bot, pid |-> pid, name |-> "Alice",
     buf |-> TRUE]

\* One session, one bot-audio connection carrying two participants, one
\* listener of the session's language that comes and goes.
PipelineNext ==
    \/ MgmtConnect("m1", "tok1")
    \/ botapi.created = {} /\ StartBegin("m1", TRUE, "en", <<"es">>)
    \/ CreateOk("m1", "b1")
    \/ StartBroadcastStep("m1")
    \/ RecallConnect("r1")
    \/ \E p \in Pids : RecallMessage("r1", AudioMsg("b1", p))
    \/ RecallStartOk("r1")
    \/ \E l \in {"l1"} :
          \/ ListenConnect(l, "es")
          \/ ListenPeerDrop(l)
          \/ ListenExit(l)
    \/ \E a \in 1..MaxAdapters :
          \/ \E t \in Texts : Utterance(a, t)
          \/ \E d \in {"ES", "EN"}, t \in Translations : TranslateOk(a, d, t)
          \/ TranslateError(a)
          \/ \E sv \in BOOLEAN : TranslateRaise(a, sv)
          \/ \E sv \in BOOLEAN : SynthRaise(a, sv)
          \/ \E size \in Mp3Sizes : SynthOk(a, size)
          \/ BroadcastAudioStep(a)

SpecPipeline == Init /\ [][PipelineNext]_vars

\* the id the bot-hosting service gives its next bot
NextBot == IF "b1" \notin botapi.created THEN "b1" ELSE "b2"

\* Starting and listing: two owners with one management connection each
\* start sessions (the bot-hosting service creates the bot or refuses), stop
\* them and drop their connections; a bot-audio connection presents a bot id
\* the registry may not hold.
StartNext ==
    \/ MgmtConnect("m1", "tok1")
    \/ MgmtConnect("m2", "tok2")
    \/ MgmtPeerDrop("m2")
    \/ MgmtExit("m2")
    \/ \E c \in MgmtConns :
          \/ StartBegin(c, TRUE, "en", IF c = "m1" THEN <<"es">> ELSE <<"fr">>)
          \/ CreateOk(c, NextBot)
          \/ CreateFail(c)
          \/ StartBroadcastStep(c)
          \/ \E b \in BotIds : StopBegin(c, b)
          \/ StopBotReturn(c, TRUE)
          \/ StopCloseResume(c)
          \/ StopBroadcastStep(c)
    \/ RecallConnect("r1")
    \/ RecallMessage("r1", AudioMsg("b1", "p1"))
    \/ RecallBroadcastStep("r1")
    \/ RecallStartOk("r1")

SpecStart == Init /\ [][StartNext]_vars

\* Stopping: an owner starts one session, a participant is heard over its
\* bot-audio connection and recorded, the owner (or a stranger) asks for the
\* stop, once or again; a second bot-audio connection presents the same bot
\* id after a stop was asked for.
StopNext ==
    \/ MgmtConnect("m1", "tok1")
    \/ MgmtConnect("m2", "tok2")
    \/ botapi.created = {} /\ StartBegin("m1", TRUE, "en", <<"es">>)
    \/ CreateOk("m1", "b1")
    \/ StartBroadcastStep("m1")
    \/ \E c \in MgmtConns :
          \/ StopBegin(c, "b1")
          \/ \E ok \in BOOLEAN : StopBotReturn(c, ok)
          \/ StopCloseResume(c)
          \/ StopBroadcastStep(c)
    \/ \E r \in RecallConns :
          \/ /\ r = "r2" => botapi.leave # <<>>
             /\ RecallConnect(r)
          \/ RecallMessage(r, AudioMsg("b1", "p1"))
          \/ RecallBroadcastStep(r)
          \/ RecallStartOk(r)
    \/ \E a \in 1..MaxAdapters :
          \/ \E t \in Texts : Utterance(a, t)
          \/ \E t \in Translations : TranslateOk(a, "EN", t)
          \/ SynthOk(a, 12000)

SpecStop == Init /\ [][StopNext]_vars

\* Fan-out: one start request for two target languages, one bot-audio
\* connection per bot, a listener of each language (one asks for "FR").
FanoutNext ==
    \/ MgmtConnect("m1", "tok1")
    \/ botapi.created = {} /\ StartBegin("m1", TRUE, "en", <<"es", "fr">>)
    \/ CreateOk("m1", NextBot)
    \/ StartBroadcastStep("m1")
    \/ \E r \in RecallConns :
          \/ RecallConnect(r)
          \/ RecallMessage(r, AudioMsg(IF r = "r1" THEN "b1" ELSE "b2", "p1"))
          \/ RecallStartOk(r)
    \/ ListenConnect("l1", "es")
    \/ \E q \in {"FR", "es"} : ListenConnect("l2", q)
    \/ ListenPeerDrop("l2")
    \/ ListenExit("l2")
    \/ \E a \in 1..MaxAdapters :
          \/ \E t \in Texts : Utterance(a, t)
          \/ \E t \in Translations : TranslateOk(a, "EN", t)
          \/ SynthOk(a, 1000)
          \/ BroadcastAudioStep(a)

SpecFanout == Init /\ [][FanoutNext]_vars

LeaveMsg(bot, pid) ==
    [event |-> "participant_events.leave", bot |-> bot, pid |-> pid, name |-> "",
     buf |-> FALSE]

\* Bot audio: two bot-audio connections present the same bot id, which the
\* registry does not know; a participant is heard on both, leaves, and the
\* connections close, while the participant's utterances run the pipeline.
AudioNext ==
    \/ \E r \in RecallConns :
          \/ RecallConnect(r)
          \/ RecallBadJson(r)
          \/ RecallMessage(r, AudioMsg("b1", "p1"))
          \/ RecallMessage(r, LeaveMsg("b1", "p1"))
          \/ RecallStartOk(r)
          \/ RecallStartFail(r)
          \/ RecallClosed(r)
          \/ RecallCloseResume(r)
    \/ \E a \in 1..MaxAdapters :
          \/ \E t \in Texts : Utterance(a, t)
          \/ \E t \in Translations : TranslateOk(a, "ES", t)
          \/ SynthOk(a, 12000)

SpecAudio == Init /\ [][AudioNext]_vars

\* Observing a stop: one owner with two management connections starts a
\* session and stops it from either of them, while the second connection
\* comes and goes.
ObserveNext ==
    \/ \E c \in MgmtConns : MgmtConnect(c, "tok1")
    \/ MgmtPeerDrop("m2")
    \/ MgmtExit("m2")
    \/ botapi.created = {} /\ StartBegin("m1", TRUE, "en", <<"es">>)
    \/ CreateOk("m1", "b1")
    \/ StartBroadcastStep("m1")
    \/ \E c \in MgmtConns :
          \/ StopBegin(c, "b1")
          \/ \E ok \in BOOLEAN : StopBotReturn(c, ok)
          \/ StopBroadcastStep(c)

SpecObserve == Init /\ [][ObserveNext]_vars

\* Teardown: one session whose bot-audio connection carries two
\* participants who speak and leave; the recognizer may refuse a connection
\* and fail to release one; the connection closes and the owner stops the
\* session.
TeardownNext ==
    \/ MgmtConnect("m1", "tok1")
    \/ botapi.created = {} /\ StartBegin("m1", TRUE, "en", <<"es">>)
    \/ CreateOk("m1", "b1")
    \/ StartBroadcastStep("m1")
    \/ StopBegin("m1", "b1")
    \/ \E ok \in BOOLEAN : StopBotReturn("m1", ok)
    \/ StopCloseResume("m1")
    \/ StopCloseFail("m1")
    \/ StopBroadcastStep("m1")
    \/ RecallConnect("r1")
    \/ \E p \in Pids :
          \/ RecallMessage("r1", AudioMsg("b1", p))
          \/ RecallMessage("r1", LeaveMsg("b1", p))
    \/ RecallStartOk("r1")
    \/ RecallStartFail("r1")
    \/ RecallClosed("r1")
    \/ RecallCloseResume("r1")

SpecTeardown == Init /\ [][TeardownNext]_vars

\* Binding: a started session b1 and two bot-audio connections whose
\* messages carry no bot id, the id b1 or the unknown id b2, some of them
\* unparsable.
BindNext ==
    \/ MgmtConnect("m1", "tok1")
    \/ botapi.created = {} /\ StartBegin("m1", TRUE, "en", <<"es">>)
    \/ CreateOk("m1", "b1")
    \/ StartBroadcastStep("m1")
    \/ \E r \in RecallConns :
          \/ RecallConnect(r)
          \/ RecallBadJson(r)
          \/ \E b \in {"", "b1", "b2"} : RecallMessage(r, AudioMsg(b, "p1"))
          \/ RecallBroadcastStep(r)
          \/ RecallStartOk(r)

SpecBind == Init /\ [][BindNext]_vars

\* Rejections: two owners send well-formed and malformed requests; the
\* bot-hosting service creates the bot or refuses; a bot-audio connection
\* sends an unparsable message between its audio chunks.
RejectNext ==
    \/ MgmtConnect("m1", "tok1")
    \/ MgmtConnect("m2", "tok2")
    \/ \E c \in MgmtConns :
          \/ \E k \in {"mgmt_bad_json", "mgmt_bad_action"} : MgmtBadMessage(c, k)
          \/ \E ok \in BOOLEAN, langs \in {<<>>, <<"es">>} :
                StartBegin(c, ok, "en", langs)
          \/ CreateOk(c, "b1")
          \/ CreateFail(c)
          \/ StartBroadcastStep(c)
          \/ \E b \in BotIds : StopBegin(c, b)
    \/ RecallConnect("r1")
    \/ RecallBadJson("r1")
    \/ RecallMessage("r1", AudioMsg("b1", "p1"))
    \/ RecallBroadcastStep("r1")
    \/ RecallStartOk("r1")

SpecReject == Init /\ [][RejectNext]_vars

\* Storage: one session with one participant and one listener; the clips
\* are recorded while their uploads to storage succeed or fail.
StoreNext ==
    \/ MgmtConnect("m1", "tok1")
    \/ botapi.created = {} /\ StartBegin("m1", TRUE, "en", <<"es">>)
    \/ CreateOk("m1", "b1")
    \/ StartBroadcastStep("m1")
    \/ RecallConnect("r1")
    \/ RecallMessage("r1", AudioMsg("b1", "p1"))
    \/ RecallStartOk("r1")
    \/ ListenConnect("l1", "es")
    \/ \E a \in 1..MaxAdapters :
          \/ \E t \in Texts : Utterance(a, t)
          \/ \E t \in Translations : TranslateOk(a, "EN", t)
          \/ \E size \in Mp3Sizes : SynthOk(a, size)
          \/ BroadcastAudioStep(a)
    \/ \E t \in tasks, ok \in BOOLEAN : UploadClip(t, ok)

SpecStore == Init /\ [][StoreNext]_vars

\* Race: the bot a start request asks for connects and sends audio while
\* create_bot has not yet returned its id, or after.
RaceNext ==
    \/ MgmtConnect("m1", "tok1")
    \/ botapi.created = {} /\ StartBegin("m1", TRUE, "en", <<"es">>)
    \/ CreateOk("m1", "b1")
    \/ StartBroadcastStep("m1")
    \/ /\ mgmt["m1"].pc = "create" \/ "b1" \in botapi.created
       /\ RecallConnect("r1")
    \/ \E p \in Pids : RecallMessage("r1", AudioMsg("b1", p))
    \/ RecallBroadcastStep("r1")
    \/ RecallStartOk("r1")
    \/ \E a \in 1..MaxAdapters :
          \/ \E t \in Texts : Utterance(a, t)
          \/ \E t \in Translations : TranslateOk(a, "EN", t)
          \/ \E size \in Mp3Sizes : SynthOk(a, size)

SpecRace == Init /\ [][RaceNext]_vars

\* Admission: two management connections present any token, valid or not;
\* those that are served start and stop sessions.
AuthNext ==
    \/ \E c \in MgmtConns, t \in Tokens : MgmtConnect(c, t)
    \/ \E c \in MgmtConns :
          \/ StartBegin(c, TRUE, "en", <<"es">>)
          \/ CreateOk(c, NextBot)
          \/ StartBroadcastStep(c)
          \/ \E b \in BotIds : StopBegin(c, b)
          \/ StopBotReturn(c, TRUE)
          \/ StopBroadcastStep(c)

SpecAuth == Init /\ [][AuthNext]_vars

\* an audio chunk of the participant a translator bot is in its meeting
TranslatorMsg(bot, pid) ==
    [event |-> "audio_separate_raw.data", bot |-> bot, pid |-> pid,
     name |-> "Translator (ES)", buf |-> TRUE]

\* Own audio: the bot of one session delivers the audio of human
\* participants and the audio of translator bots, before or after the start
\* request has registered the session; what the humans say is recognized,
\* translated and synthesized.
OwnAudioNext ==
    \/ MgmtConnect("m1", "tok1")
    \/ botapi.created = {} /\ StartBegin("m1", TRUE, "en", <<"es">>)
    \/ CreateOk("m1", "b1")
    \/ StartBroadcastStep("m1")
    \/ RecallConnect("r1")
    \/ \E p \in Pids : RecallMessage("r1", AudioMsg("b1", p))
    \/ \E p \in Pids : RecallMessage("r1", TranslatorMsg("b1", p))
    \/ RecallBroadcastStep("r1")
    \/ RecallStartOk("r1")
    \/ \E a \in 1..MaxAdapters :
          \/ \E t \in Texts : Utterance(a, t)
          \/ \E t \in Translations : TranslateOk(a, "EN", t)
          \/ \E size \in Mp3Sizes : SynthOk(a, size)

SpecOwnAudio == Init /\ [][OwnAudioNext]_vars

(***************************************************************************)
(* Claims about recording and the per-utterance pipeline (SpecPipeline).   *)
(***************************************************************************)

ClipsOf(r) == {u \in 1..Len(utt) : utt[u].rec = r /\ utt[u].st = "clip"}

\* C1: in every session the clips written to the subtitle and transcript
\* buffers are numbered exactly 1..N, N the number of utterances recorded
\* for it, each number given to one utterance; the first clip starts at 0
\* and every later clip starts where the previous one ends.
C1_ClipNumbering ==
    \A r \in 1..Len(sess) :
        LET srt == sess[r].srt_buffer
            tr == sess[r].transcript_buffer
            N == Cardinality(ClipsOf(r))
        IN  /\ Len(srt) = N
            /\ Len(tr) = N
            /\ sess[r].clip_count = N
            /\ {utt[u].n : u \in ClipsOf(r)} = 1..N
            /\ \A i \in 1..N :
                  /\ srt[i].n = i
                  /\ tr[i].n = i
                  /\ i = 1 => srt[i].start = <<0, 0, 0, 0>> /\ tr[i].audio_start = 0
                  /\ i > 1 => /\ srt[i].start = srt[i - 1].end
                              /\ tr[i].audio_start = tr[i - 1].audio_end

\* two clips of one session, recorded from two participants whose pipelines
\* overlapped, the second starting later than 0
C1_Witness ==
    \E r \in 1..Len(sess) :
        /\ Len(sess[r].srt_buffer) = 2
        /\ sess[r].srt_buffer[2].start # <<0, 0, 0, 0>>
        /\ \E u, v \in ClipsOf(r) : utt[u].pid # utt[v].pid /\ u \in utt[v].conc

\* C2: when translate reports a detected source language that is the
\* session's target language, the utterance ends there: synthesize is not
\* called, nothing is delivered to a listener, no storage task is created,
\* and no session's counter, offset or buffers change.
C2_SameLanguageNoOp ==
    [][\A u \in 1..Len(utt) :
          (/\ utt[u].st = "run"
           /\ adapters[utt[u].ad].pc = "translate"
           /\ utt'[u].detected # ""
           /\ Lower(utt'[u].detected) = sess[utt[u].rec].target_lang)
          => /\ utt'[u].st = "skipped"
             /\ adapters'[utt[u].ad].pc = "read"
             /\ received' = received
             /\ tasks' = tasks
             /\ sess' = sess]_vars

\* an utterance was skipped while a listener of its language was subscribed
C2_Witness ==
    \E u \in 1..Len(utt) :
        /\ utt[u].st = "skipped"
        /\ utt[u].detected = "ES"
        /\ sess[utt[u].rec].target_lang = "es"
        /\ listener_clients["es"] # {}

\* C6: when two participants of one session each produce one utterance and
\* the two pipelines overlap, then once both are over (translation and
\* synthesis having succeeded for both) both are recorded, as clips 1 and 2.
C6_ConcurrentClips ==
    \A u, v \in 1..Len(utt) :
        (/\ utt[u].rec = utt[v].rec
         /\ utt[u].pid # utt[v].pid
         /\ u \in utt[v].conc
         /\ utt[u].synth /\ utt[v].synth
         /\ utt[u].st # "run" /\ utt[v].st # "run")
        => /\ utt[u].st = "clip" /\ utt[v].st = "clip"
           /\ {utt[u].n, utt[v].n} = {1, 2}

\* C10: when translate or synthesize fails for an utterance (an error reply
\* or an exception), no clip is recorded for it, its session stays in the
\* registry and the participant's adapter stays open with its read loop
\* running.
C10_FailedUtteranceKeepsStream ==
    [][\A u \in 1..Len(utt) :
          (/\ utt[u].st = "run"
           /\ adapters[utt[u].ad].pc \in {"translate", "synth"}
           /\ utt'[u].st \in {"failed", "raised"})
          => /\ sess'[utt[u].rec].clip_count = sess[utt[u].rec].clip_count
             /\ bot_sessions'[sess[utt[u].rec].bot_id] = utt[u].rec
             /\ adapters'[utt[u].ad].socket
             /\ adapters'[utt[u].ad].listen = "run"
             /\ adapters'[utt[u].ad].pc = "read"]_vars

\* C14: the clips of one session reach each listener in the order of their
\* sequence numbers: of two recorded clips of a session delivered to a
\* listener, the one delivered first has the smaller number.
C14_PublishedInNumberOrder ==
    \A l \in ListenConns :
        \A i, j \in 1..Len(received[l]) :
            LET u == received[l][i]
                v == received[l][j]
            IN  (/\ i < j
                 /\ utt[u].rec = utt[v].rec
                 /\ utt[u].st = "clip"
                 /\ utt[v].st = "clip")
                => utt[u].n < utt[v].n

(***************************************************************************)
(* Claims about the fan-out to listeners (SpecFanout).                     *)
(***************************************************************************)

\* C3: every clip a listener connection has been sent was produced by a
\* session whose target language is the language key the connection
\* subscribed under; a listener of "es" is never sent a clip of "fr".
C3_ListenerIsolation ==
    \A l \in ListenConns :
        \A i \in 1..Len(received[l]) :
            sess[utt[received[l][i]].rec].target_lang = listener[l].lang

\* two sessions with different target languages have each delivered a clip
\* to the listener of their own language
C3_Witness ==
    /\ listener["l1"].lang = "es" /\ received["l1"] # <<>>
    /\ listener["l2"].lang = "fr" /\ received["l2"] # <<>>

(***************************************************************************)
(* Claims about stopping a session (SpecStop).                             *)
(***************************************************************************)

\* the stop of bot b ran to its end: its final update was handed to storage
StopCompleted(b) ==
    \E t \in tasks : t.kind = "update_session_status" /\ t.bot = b /\ t.status = "stopped"

\* bot b was created by a start request of that owner
StartedBy(b, user) ==
    \E t \in tasks : t.kind = "create_session" /\ t.bot = b /\ t.user = user

\* C4: a stop request for a registered session from a requester who is not
\* its owner is answered with the not-authorized error and changes nothing:
\* the registry, the session (status, adapters, recording state) and the
\* adapters stay as they are, no bot-leave call is made and nothing is flushed.
C4_StopByStranger ==
    [][\A c \in MgmtConns, b \in BotIds :
          (/\ Registered(b)
           /\ sess[bot_sessions[b]].user_id # mgmt[c].user
           /\ StopBegin(c, b))
          => /\ ev'.out = {ErrorMsg(c, "Not authorized to stop this bot")}
             /\ bot_sessions' = bot_sessions
             /\ sess' = sess
             /\ adapters' = adapters
             /\ botapi' = botapi
             /\ tasks' = tasks
             /\ mgmt'[c].pc = "idle"]_vars

\* a stranger was refused the stop of a session that is in the call with an
\* open adapter and a recorded clip
C4_Witness ==
    /\ ev.out = {ErrorMsg("m2", "Not authorized to stop this bot")}
    /\ Registered("b1")
    /\ LET s == sess[bot_sessions["b1"]]
       IN  /\ s.user_id = "u1"
           /\ s.status = "in_call"
           /\ s.clip_count >= 1
           /\ \E p \in Pids : /\ s.asr_streams[p] # NoAdapter
                              /\ adapters[s.asr_streams[p]].listen = "run"
    /\ botapi.leave = <<>>

\* C5 as stated: once a stop of a session has completed, another stop
\* request of its owner for the same id is answered "Unknown bot", closes no
\* adapter and flushes nothing.
C5_SecondStopNotFound ==
    [][\A c \in MgmtConns, b \in BotIds :
          (/\ StopCompleted(b)
           /\ StartedBy(b, mgmt[c].user)
           /\ StopBegin(c, b))
          => /\ ev'.out = {ErrorMsg(c, "Unknown bot")}
             /\ adapters' = adapters
             /\ tasks' = tasks
             /\ botapi' = botapi]_vars

\* C5 amended: once a stop of a session has completed, another stop request
\* of its owner for the same id is refused, closes no adapter, makes no
\* bot-leave call and flushes nothing; the answer is "Unknown bot" unless a
\* bot-audio connection has since registered a fallback session under the
\* id, and then it is the not-authorized error.
C5_SecondStopRefused ==
    [][\A c \in MgmtConns, b \in BotIds :
          (/\ StopCompleted(b)
           /\ StartedBy(b, mgmt[c].user)
           /\ StopBegin(c, b))
          => /\ IF Registered(b)
                THEN /\ sess[bot_sessions[b]].user_id = NoUser
                     /\ ev'.out = {ErrorMsg(c, "Not authorized to stop this bot")}
                ELSE ev'.out = {ErrorMsg(c, "Unknown bot")}
             /\ adapters' = adapters
             /\ sess' = sess
             /\ bot_sessions' = bot_sessions
             /\ tasks' = tasks
             /\ botapi' = botapi
             /\ mgmt'[c].pc = "idle"]_vars

\* the owner's second stop was answered "Unknown bot" after a first stop that
\* closed an adapter and flushed a recording
C5_Witness ==
    /\ ev.out = {ErrorMsg("m1", "Unknown bot")}
    /\ StopCompleted("b1")
    /\ \E a \in 1..Len(adapters) : adapters[a].closes = 1 /\ ~adapters[a].socket
    /\ \E t \in tasks : t.kind = "upload_text_file:subtitles.srt" /\ t.bot = "b1"
    /\ botapi.leave = <<"b1">>

\* C7: when the stop of a session removes it from the registry with N clips
\* recorded, the subtitle content handed to storage has N blocks numbered
\* 1..N and the transcript content N lines numbered 1..N (nothing is handed
\* over when N = 0), and no status snapshot sent afterwards lists the session.
C7_FlushAndRemoval ==
    [][/\ \A b \in BotIds :
             (Registered(b) /\ bot_sessions'[b] = NoRec)
             => LET N == Cardinality(ClipsOf(bot_sessions[b]))
                    flushed(kind) == {t \in tasks' : t.kind = kind /\ t.bot = b}
                    numbered(t) == /\ Len(t.content) = N
                                   /\ \A i \in 1..N : t.content[i].n = i
                IN  \A kind \in {"upload_text_file:subtitles.srt",
                                 "upload_text_file:transcript.jsonl"} :
                       /\ Cardinality(flushed(kind)) = IF N = 0 THEN 0 ELSE 1
                       /\ \A t \in flushed(kind) : numbered(t)
       /\ \A m \in ev'.out :
             m.type = "status" => \A v \in m.bots : ~StopCompleted(v.bot_id)']_vars

\* a session with two clips was stopped, two blocks and two lines were
\* flushed, and a later snapshot sent to its owner does not list it
C7_Witness ==
    /\ ~Registered("b1")
    /\ StopCompleted("b1")
    /\ \E t \in tasks : /\ t.kind = "upload_text_file:subtitles.srt"
                        /\ t.bot = "b1" /\ Len(t.content) = 2
    /\ \E t \in tasks : /\ t.kind = "upload_text_file:transcript.jsonl"
                        /\ t.bot = "b1" /\ Len(t.content) = 2
    /\ \E m \in ev.out : m.type = "status" /\ m.to = "m1" /\ m.bots = {}

(***************************************************************************)
(* Claims about starting and listing sessions (SpecStart).                 *)
(***************************************************************************)

\* C8: every status snapshot sent to a management connection, on connect or
\* by a broadcast, lists the registry sessions owned by the identity the
\* connection authenticated as, all of them and no other, as they are.
C8_SnapshotOwnSessions ==
    \A m \in ev.out :
        m.type = "status"
        => /\ {v.bot_id : v \in m.bots} =
                  {b \in BotIds : /\ bot_sessions[b] # NoRec
                                  /\ sess[bot_sessions[b]].user_id = mgmt[m.to].user}
           /\ \A v \in m.bots :
                  LET s == sess[bot_sessions[v.bot_id]]
                  IN  /\ v.status = s.status
                      /\ v.target_lang = s.target_lang
                      /\ v.source_lang = s.source_lang
                      /\ v.clip_count = s.clip_count

\* a snapshot listing its own session was sent to one owner while the
\* registry also holds a session of the other owner
C8_Witness ==
    \E m \in ev.out :
        /\ m.type = "status"
        /\ m.to = "m2"
        /\ m.bots # {}
        /\ \E b \in BotIds : Registered(b) /\ sess[bot_sessions[b]].user_id = "u1"

\* C9: when a create_bot call of a start request ends without a bot (the
\* bot-hosting service refused), the requester (if still connected) is sent
\* an error, and the registry and every session in it are as they were: no
\* entry is added for the request.
C9_CreateRefused ==
    [][\A c \in MgmtConns :
          (/\ mgmt[c].pc = "create"
           /\ mgmt'[c].pc # "create" \/ mgmt'[c].langs # mgmt[c].langs
           /\ botapi'.created = botapi.created)
          => /\ mgmt[c].alive => ErrorMsg(c, "Failed to create bot") \in ev'.out
             /\ bot_sessions' = bot_sessions
             /\ sess' = sess]_vars

\* a refused start was reported to its requester while the registry holds
\* the session of another owner, and only that one
C9_Witness ==
    /\ ErrorMsg("m2", "Failed to create bot") \in ev.out
    /\ Registered("b1")
    /\ ~Registered("b2")
    /\ sess[bot_sessions["b1"]].status = "in_call"
    /\ Len(sess) = 1

(***************************************************************************)
(* Claims about the life of a session (SpecStop).                          *)
(***************************************************************************)

\* the place of a status on the line starting -> in_call -> stopped
StatusRank(st) ==
    CASE st = "starting" -> 0
      [] st = "in_call" -> 1
      [] st = "stopped" -> 2

\* C11 as stated: every session is created with status starting, and the
\* status of a session never moves backward on the line
\* starting -> in_call -> stopped.
C11_StartingThenForward ==
    [][\A r \in 1..Len(sess') :
          IF r > Len(sess)
          THEN sess'[r].status = "starting"
          ELSE StatusRank(sess'[r].status) >= StatusRank(sess[r].status)]_vars

\* C11 amended: every session is created with status in_call (by a start
\* request once create_bot has returned, or by the fallback of a bot-audio
\* connection), its status never moves backward, and the only move is
\* in_call -> stopped; no session ever has status starting.
C11_InCallThenStopped ==
    [][\A r \in 1..Len(sess') :
          IF r > Len(sess)
          THEN sess'[r].status = "in_call"
          ELSE /\ StatusRank(sess'[r].status) >= StatusRank(sess[r].status)
               /\ sess'[r].status \in {"in_call", "stopped"}]_vars

\* a started session was stopped, after audio and clips, and a fallback
\* session was then created for the same bot id
C11_Witness ==
    /\ Len(sess) = 2
    /\ sess[1].status = "stopped" /\ sess[1].clip_count >= 1
    /\ sess[2].status = "in_call" /\ sess[2].bot_id = sess[1].bot_id

\* C13: a session leaves the registry only on a step of a stop request for
\* it, and on that step its adapter map is empty, every adapter created for
\* it has been closed, and the final flush (the stopped update) is issued.
C13_RemovedOnlyWhenClosed ==
    [][\A b \in BotIds :
          (Registered(b) /\ bot_sessions'[b] = NoRec)
          => LET r == bot_sessions[b]
             IN  /\ \E c \in MgmtConns :
                       /\ mgmt[c].pc \in {"stop_bot", "stop_close", "stop_bcast"}
                       /\ mgmt[c].bot = b
                       /\ mgmt'[c].pc = "idle"
                 /\ StreamKeys(sess'[r]) = {}
                 /\ \A a \in 1..Len(adapters') :
                       adapters'[a].rec = r => ~adapters'[a].socket
                 /\ \E t \in tasks' \ tasks :
                       /\ t.kind = "update_session_status"
                       /\ t.bot = b
                       /\ t.status = "stopped"]_vars

(***************************************************************************)
(* Claims about bot-audio connections and adapters (SpecAudio).            *)
(***************************************************************************)

\* adapter a was started and close() has not been called on it
Live(a) == adapters[a].socket /\ adapters[a].closes = 0

\* C12: for every session and participant id there is at most one adapter
\* that has been started and not yet closed, also when two bot-audio
\* connections bound to the session carry audio of the same participant.
C12_OneLiveAdapter ==
    \A a, b \in 1..Len(adapters) :
        (/\ a # b
         /\ adapters[a].rec = adapters[b].rec
         /\ adapters[a].pid = adapters[b].pid)
        => ~(Live(a) /\ Live(b))

\* C15: the utterances of one participant of one session are processed one
\* at a time and in order: no two of them are in the pipeline at once, and
\* those recorded are numbered in the order they arrived.
C15_SequentialPerParticipant ==
    \A u, v \in 1..Len(utt) :
        (/\ u < v
         /\ utt[u].rec = utt[v].rec
         /\ utt[u].pid = utt[v].pid)
        => /\ ~(utt[u].st = "run" /\ utt[v].st = "run")
           /\ u \notin utt[v].conc
           /\ (utt[u].st = "clip" /\ utt[v].st = "clip") => utt[u].n < utt[v].n

(***************************************************************************)
(* Claims about the persisted record of a session (SpecStop).              *)
(***************************************************************************)

\* C16: once a started session has been stopped with all its clips counted
\* in the final update and no step of it is left to run, every order in which its detached status updates complete leaves a
\* record with status stopped, the number of clips recorded for the session
\* and the rounded sum of their estimated durations.
C16_PersistedRecordFinal ==
    \A r \in 1..Len(sess) :
        (/\ sess[r].user_id # NoUser
         /\ sess[r].status = "stopped"
         /\ \E t \in WritesOf(sess[r].bot_id) :
               t.status = "stopped" /\ t.n = sess[r].clip_count
         /\ \A u \in 1..Len(utt) : utt[u].rec = r => utt[u].st # "run")
        => \A row \in Outcomes(CreateSession, WritesOf(sess[r].bot_id)) :
              /\ row.status = "stopped"
              /\ row.clip_count = sess[r].clip_count
              /\ row.duration = Round1(sess[r].audio_offset)


(***************************************************************************)
(* Claims about the fallback session of an unknown bot id (SpecStop).      *)
(***************************************************************************)

\* audio message m of connection r was taken up: its adapter was created
\* for the session the connection is bound to and start() is awaited
TakenUp(r, m) ==
    /\ recall'[r].pc = "start"
    /\ recall'[r].pid = m.pid
    /\ Len(adapters') = Len(adapters) + 1
    /\ adapters'[Len(adapters')].rec = recall'[r].rec
    /\ adapters'[Len(adapters')].pid = m.pid

\* C17: when an unbound bot-audio connection presents a bot id the registry
\* does not know, the registry gains a fresh session for that id with source
\* "es", the configured default target and status in_call, the connection is
\* bound to it, and the audio of the message is taken up (at once, or when
\* the status broadcast of the fallback has finished) instead of being dropped.
C17_FallbackForUnknownBot ==
    [][\A r \in RecallConns : \A b \in BotIds : \A p \in Pids :
          LET m == AudioMsg(b, p)
          IN  /\ (/\ RecallMessage(r, m)
                  /\ recall[r].rec = NoRec
                  /\ ~Registered(b))
                 => /\ bot_sessions'[b] = Len(sess) + 1
                    /\ sess' = Append(sess,
                          [bot_id |-> b, user_id |-> "", source_lang |-> "es",
                           target_lang |-> "en", status |-> "in_call",
                           asr_streams |-> [q \in Pids |-> NoAdapter],
                           clip_count |-> 0, audio_offset |-> 0,
                           srt_buffer |-> <<>>, transcript_buffer |-> <<>>])
                    /\ recall'[r].rec = bot_sessions'[b]
                    /\ \/ recall'[r].pc = "fb_bcast" /\ recall'[r].m = m
                       \/ TakenUp(r, m)
              /\ (/\ RecallBroadcastStep(r)
                  /\ recall[r].m = m)
                 => \/ recall'[r].pc = "fb_bcast" /\ recall'[r].m = m
                    \/ TakenUp(r, m)]_vars

(***************************************************************************)
(* Claims about recording next to the fan-out (SpecPipeline).              *)
(***************************************************************************)

\* C18: every clip the pipeline produced (synthesize returned its audio) is
\* in the session's recording once its utterance is done, whatever the
\* listeners of the target language did during the delivery.
C18_EveryClipRecorded ==
    \A u \in 1..Len(utt) :
        (utt[u].synth /\ utt[u].st \notin {"run", "cancelled"})
        => /\ utt[u].st = "clip"
           /\ \E i \in 1..Len(sess[utt[u].rec].transcript_buffer) :
                 /\ sess[utt[u].rec].transcript_buffer[i].n = utt[u].n
                 /\ sess[utt[u].rec].transcript_buffer[i].original = utt[u].text


(***************************************************************************)
(* Claims about the sets a broadcast iterates (SpecPipeline).              *)
(***************************************************************************)

\* C19: while a publish pass is suspended in a send, the listener set of its
\* language changes only on the step that ends this pass, and then only by
\* losing the listeners whose send failed; likewise the table of management
\* clients changes during a status broadcast only on the step that ends it.
C19_NoChangeDuringPass ==
    [][/\ \A a \in 1..Len(adapters) :
             adapters[a].pc = "bcast"
             => LET k == sess[adapters[a].rec].target_lang
                IN  listener_clients'[k] # listener_clients[k]
                    => /\ adapters'[a].pc # "bcast"
                       /\ listener_clients'[k] = listener_clients[k] \ adapters[a].stale
       /\ \A c \in MgmtConns :
             mgmt[c].pc \in {"start_bcast", "stop_bcast"}
             => (mgmt_clients' # mgmt_clients => mgmt'[c].pc # mgmt[c].pc)
       /\ \A r \in RecallConns :
             recall[r].pc = "fb_bcast"
             => (mgmt_clients' # mgmt_clients => recall'[r].pc # "fb_bcast")]_vars


(***************************************************************************)
(* Claims about closing an adapter (SpecAudio).                            *)
(***************************************************************************)

\* C20: when close() is called on an adapter whose read loop has dispatched
\* an utterance that is still in the pipeline, only the read loop is
\* cancelled: the utterance stays in the pipeline at the step it had reached.
C20_CloseSparesPipeline ==
    [][\A a \in 1..Len(adapters) :
          (/\ adapters'[a].closes > adapters[a].closes
           /\ adapters[a].u # 0
           /\ utt[adapters[a].u].st = "run")
          => /\ utt'[adapters[a].u].st = "run"
             /\ adapters'[a].u = adapters[a].u
             /\ adapters'[a].pc = adapters[a].pc]_vars


\* a handler is suspended in close() of adapter a
Closing(a) ==
    \/ \E c \in MgmtConns : mgmt[c].pc = "stop_close" /\ mgmt[c].ad = a
    \/ \E r \in RecallConns :
          recall[r].pc \in {"leave_close", "fin_close"} /\ recall[r].ad = a

\* C21: close() cancels the read loop at once, also with an utterance in the
\* pipeline; when it has returned the upstream connection has been released
\* exactly once; and closing any adapter once more changes nothing and
\* releases nothing again.
C21_CloseIdempotent ==
    \A a \in 1..Len(adapters) :
        LET once == CloseFinish(CloseBegin(adapters[a]))
            twice == CloseFinish(CloseBegin(once))
        IN  /\ adapters[a].closes > 0
               => /\ adapters[a].listen # "run"
                  /\ adapters[a].u = 0
                  /\ ~Closing(a)
                     => /\ ~adapters[a].ctx /\ ~adapters[a].socket
                        /\ adapters[a].listen = "none"
                        /\ adapters[a].exits = 1
            /\ once.listen = "none" /\ ~once.ctx /\ ~once.socket
            /\ once.exits <= 1
            /\ twice = [once EXCEPT !.closes = @ + 1]

\* an adapter was closed while its callback was in the pipeline, and the
\* close has returned
C21_Witness ==
    \E u \in 1..Len(utt) :
        /\ utt[u].st = "cancelled"
        /\ adapters[utt[u].ad].closes = 1
        /\ adapters[utt[u].ad].exits = 1
        /\ ~Closing(utt[u].ad)

(***************************************************************************)
(* Claims about what management clients are shown of a stop (SpecObserve). *)
(***************************************************************************)

\* C22: every status message a stop request sends to a client of the owner
\* while the session is registered shows the session as stopped, and on the
\* step that removes the session its status is stopped and every client of
\* the owner still in the table has been sent such a message by this pass.
C22_StoppedShownBeforeRemoval ==
    [][\A c \in MgmtConns : \A b \in BotIds :
          (/\ mgmt[c].pc \in {"stop_bot", "stop_close", "stop_bcast"}
           /\ mgmt[c].bot = b
           /\ bot_sessions[b] = mgmt[c].rec)
          => LET owner == sess[mgmt[c].rec].user_id
             IN  /\ ev'.who = c
                    => \A msg \in ev'.out :
                          (msg.type = "status" /\ mgmt[msg.to].user = owner)
                          => \E v \in msg.bots :
                                v.bot_id = b /\ v.status = "stopped"
                 /\ (bot_sessions'[b] = NoRec /\ mgmt'[c].pc # mgmt[c].pc)
                    => /\ sess'[mgmt[c].rec].status = "stopped"
                       /\ \A i \in 1..Len(mgmt_clients') :
                             mgmt_clients'[i][2] = owner
                             => mgmt_clients'[i][1] \in
                                   mgmt[c].f.seen \ mgmt[c].f.stale]_vars

\* the session was stopped and removed while both connections of its owner
\* were in the table
C22_Witness ==
    /\ StopCompleted("b1")
    /\ ~Registered("b1")
    /\ Len(mgmt_clients) = 2
    /\ \A c \in MgmtConns : mgmt[c].alive /\ mgmt[c].user = "u1"


(***************************************************************************)
(* Claims about tearing adapters down (SpecTeardown, SpecAudio).           *)
(***************************************************************************)

\* the cleanup loop of stop request c goes on with the participants pids:
\* it pops and closes the adapter of one of them, or, when none of them has
\* one, marks the session stopped and goes on to the broadcast and removal
LoopGoesOn(c, pids) ==
    LET r == mgmt[c].rec
        cand == {p \in pids : sess[r].asr_streams[p] # NoAdapter}
    IN  IF cand # {}
        THEN /\ mgmt'[c].pc = "stop_close"
             /\ \E p \in cand :
                   LET a == sess[r].asr_streams[p]
                   IN  /\ mgmt'[c].ad = a
                       /\ mgmt'[c].pids = pids \ {p}
                       /\ sess'[r].asr_streams[p] = NoAdapter
                       /\ adapters'[a].closes = adapters[a].closes + 1
                       /\ adapters'[a].listen # "run"
        ELSE /\ sess'[r].status = "stopped"
             /\ \/ mgmt'[c].pc = "stop_bcast"
                \/ mgmt'[c].pc = "idle" /\ bot_sessions'[mgmt[c].bot] = NoRec

\* C23: the cleanup loop of a stop starts with every adapter in the session's
\* map; whenever a close returns, the release having failed or not, that
\* adapter is released and the loop goes on with the remaining ones and,
\* after the last, marks the session stopped and goes on to remove it.
C23_StopClosesAll ==
    [][\A c \in MgmtConns :
          /\ (mgmt[c].pc = "stop_bot" /\ mgmt'[c].pc # "stop_bot")
             => LoopGoesOn(c, StreamKeys(sess[mgmt[c].rec]))
          /\ (/\ mgmt[c].pc = "stop_close"
              /\ \/ mgmt'[c].pc # "stop_close"
                 \/ mgmt'[c].ad # mgmt[c].ad)
             => /\ ~adapters'[mgmt[c].ad].ctx
                /\ ~adapters'[mgmt[c].ad].socket
                /\ LoopGoesOn(c, mgmt[c].pids)]_vars

\* a session with two adapters was stopped and removed; both adapters are
\* released although the release of one of them failed
C23_Witness ==
    /\ StopCompleted("b1")
    /\ ~Registered("b1")
    /\ Len(adapters) = 2
    /\ \A a \in 1..2 : adapters[a].closes = 1 /\ ~adapters[a].ctx /\ ~adapters[a].socket
    /\ \E a \in 1..2 : adapters[a].raised
    /\ \A p \in Pids : \E a \in 1..2 : adapters[a].pid = p


\* the finally block of connection r goes on with the participants pids: it
\* pops and closes the adapter of one of them or, when none of them has one,
\* ends the handler
FinGoesOn(r, pids) ==
    LET rid == recall[r].rec
        cand == {p \in pids : sess[rid].asr_streams[p] # NoAdapter}
    IN  IF cand # {}
        THEN /\ recall'[r].pc = "fin_close"
             /\ \E p \in cand :
                   LET a == sess[rid].asr_streams[p]
                   IN  /\ recall'[r].ad = a
                       /\ recall'[r].pids = pids \ {p}
                       /\ sess'[rid].asr_streams[p] = NoAdapter
                       /\ adapters'[a].closes = adapters[a].closes + 1
                       /\ adapters'[a].listen # "run"
        ELSE /\ recall'[r].pc = "done"
             /\ sess'[rid].asr_streams = sess[rid].asr_streams

\* C24: when a bound bot-audio connection closes, its handler pops and
\* closes, one after the other, every adapter that is in the session's map,
\* and no step of this teardown changes the registry or anything of the
\* session but its adapter map.
C24_ConnectionCloseTearsDown ==
    [][\A r \in RecallConns :
          LET rid == recall[r].rec
              frame == /\ bot_sessions' = bot_sessions
                       /\ sess' = [sess EXCEPT ![rid].asr_streams =
                                                   sess'[rid].asr_streams]
          IN  /\ (/\ recall[r].pc = "idle"
                  /\ rid # NoRec
                  /\ recall'[r].pc \in {"fin_close", "done"})
                 => FinGoesOn(r, StreamKeys(sess[rid])) /\ frame
              /\ (/\ recall[r].pc = "fin_close"
                  /\ recall'[r] # recall[r])
                 => /\ ~adapters'[recall[r].ad].ctx
                    /\ ~adapters'[recall[r].ad].socket
                    /\ FinGoesOn(r, recall[r].pids)
                    /\ frame]_vars

\* a connection has closed after its session recorded a clip: the handler
\* is over, the adapter map is empty, its adapter is released, and the
\* session is still registered with its clip
C24_Witness ==
    \E r \in RecallConns :
        /\ recall[r].pc = "done"
        /\ recall[r].rec # NoRec
        /\ StreamKeys(sess[recall[r].rec]) = {}
        /\ sess[recall[r].rec].clip_count = 1
        /\ sess[recall[r].rec].status = "in_call"
        /\ bot_sessions[sess[recall[r].rec].bot_id] = recall[r].rec
        /\ \E a \in 1..Len(adapters) :
               /\ adapters[a].rec = recall[r].rec
               /\ adapters[a].closes = 1
               /\ ~adapters[a].socket

(***************************************************************************)
(* Claims about binding a bot-audio connection (SpecBind).                 *)
(***************************************************************************)

\* C25: a message without a bot id leaves an unbound connection unbound and
\* its audio creates no adapter and changes no session; the first message
\* with a bot id binds the connection to the session registered for that
\* id; a bound connection keeps its session; and every adapter belongs to a
\* session some connection is bound to.
C25_BindOnFirstBotId ==
    [][/\ \A r \in RecallConns : \A b \in BotIds \cup {""} :
             (RecallMessage(r, AudioMsg(b, "p1")) /\ recall[r].rec = NoRec)
             => IF b = ""
                THEN /\ recall'[r].rec = NoRec
                     /\ recall'[r].pc = "idle"
                     /\ adapters' = adapters
                     /\ sess' = sess
                     /\ bot_sessions' = bot_sessions
                ELSE /\ recall'[r].rec # NoRec
                     /\ bot_sessions'[b] = recall'[r].rec
                     /\ sess'[recall'[r].rec].bot_id = b
       /\ \A r \in RecallConns :
             recall[r].rec # NoRec => recall'[r].rec = recall[r].rec
       /\ \A a \in 1..Len(adapters') :
             \E r \in RecallConns : recall'[r].rec = adapters'[a].rec]_vars

\* both connections are bound, one of them to the session of b1 for which
\* it started an adapter, and the unknown id b2 has got a session
C25_Witness ==
    \E r \in RecallConns :
        /\ recall[r].rec # NoRec
        /\ sess[recall[r].rec].bot_id = "b1"
        /\ sess[recall[r].rec].asr_streams["p1"] # NoAdapter
        /\ Registered("b2")
        /\ \A q \in RecallConns : recall[q].rec # NoRec


(***************************************************************************)
(* Claims about the adapters of participants (SpecTeardown).               *)
(***************************************************************************)

\* C26: audio of a participant who has no adapter in the session's map
\* creates one new adapter for that participant and session, audio of a
\* participant who has one creates none; a leave event pops and closes the
\* adapter of that participant and leaves every other map entry and adapter
\* as it is.
C26_LazyAdapterPerParticipant ==
    [][\A r \in RecallConns : \A p \in Pids :
          LET rid == recall[r].rec
              old == sess[rid].asr_streams[p]
              n == Len(adapters)
          IN  /\ (rid # NoRec /\ RecallMessage(r, AudioMsg("b1", p)))
                 => IF old = NoAdapter
                    THEN /\ Len(adapters') = n + 1
                         /\ adapters'[n + 1].rec = rid
                         /\ adapters'[n + 1].pid = p
                         /\ adapters'[n + 1].ctx
                         /\ adapters'[n + 1].closes = 0
                         /\ \A a \in 1..n : adapters'[a] = adapters[a]
                    ELSE /\ Len(adapters') = n
                         /\ sess' = sess
              /\ (rid # NoRec /\ RecallMessage(r, LeaveMsg("b1", p)))
                 => /\ sess' = [sess EXCEPT ![rid].asr_streams[p] = NoAdapter]
                    /\ Len(adapters') = n
                    /\ \A a \in 1..n :
                          IF a = old
                          THEN /\ adapters'[a].closes = adapters[a].closes + 1
                               /\ adapters'[a].listen # "run"
                          ELSE adapters'[a] = adapters[a]]_vars

\* a participant spoke, left and spoke again: the first adapter is released
\* and the map holds a second, started one
C26_Witness ==
    /\ Len(adapters) = 2
    /\ adapters[1].pid = adapters[2].pid
    /\ adapters[1].closes = 1 /\ ~adapters[1].socket
    /\ adapters[2].closes = 0 /\ adapters[2].socket
    /\ sess[adapters[2].rec].asr_streams[adapters[2].pid] = 2


\* C27: when stream.start() raises for the adapter a bot-audio connection
\* has just built, that adapter is not put into the session's adapter map
\* and the map stays as it was.
C27_FailedStartLeavesMap ==
    [][\A r \in RecallConns :
          RecallStartFail(r)
          => LET rid == recall[r].rec
             IN  /\ \A p \in Pids : sess'[rid].asr_streams[p] # recall[r].ad
                 /\ sess'[rid].asr_streams = sess[rid].asr_streams]_vars

(***************************************************************************)
(* Claims about rejected and unparsable messages (SpecReject).             *)
(***************************************************************************)

\* connection c is sent the error text in the step
Answered(c, text) == ErrorMsg(c, text) \in ev'.out

\* the step leaves c in its message loop and the registry, the sessions
\* and the adapters as they are
StaysOpen(c) ==
    /\ mgmt'[c].pc \notin {"init", "done"}
    /\ \E i \in 1..Len(mgmt_clients') : mgmt_clients'[i][1] = c
    /\ bot_sessions' = bot_sessions
    /\ sess' = sess
    /\ adapters' = adapters

\* every rejection is answered on the step that makes it
RejectionsAnswered ==
    \A c \in MgmtConns :
        /\ \A b \in BotIds :
              (/\ StopBegin(c, b)
               /\ \/ ~Registered(b)
                  \/ sess[bot_sessions[b]].user_id # mgmt[c].user)
              => /\ Answered(c, IF Registered(b)
                                THEN "Not authorized to stop this bot"
                                ELSE "Unknown bot")
                 /\ StaysOpen(c)
                 /\ mgmt'[c].pc = "idle"
        /\ \A langs \in {<<>>, <<"es">>} :
              StartBegin(c, FALSE, "en", langs)
              => Answered(c, "Missing meeting_url") /\ StaysOpen(c) /\ mgmt'[c].pc = "idle"
        /\ StartBegin(c, TRUE, "en", <<>>)
           => /\ Answered(c, "Select at least one target language")
              /\ StaysOpen(c)
              /\ mgmt'[c].pc = "idle"
        /\ MgmtBadMessage(c, "mgmt_bad_action")
           => Answered(c, "Unknown action") /\ StaysOpen(c) /\ mgmt'[c].pc = "idle"
        /\ (CreateFail(c) /\ mgmt[c].alive)
           => Answered(c, "Failed to create bot") /\ StaysOpen(c)

\* C28: every rejected control action is answered with an error on the
\* requesting connection and leaves the registry as it is, and the
\* connection stays in its message loop: also a start request all of whose
\* bot creations failed returns to the loop once its status broadcast ends.
C28_RejectionsKeepConnection ==
    [][/\ RejectionsAnswered
       /\ \A c \in MgmtConns :
             (mgmt[c].pc = "start_bcast" /\ botapi.created = {})
             => mgmt'[c].pc \in {"start_bcast", "idle"}]_vars


C30_BuffersIndependentOfStorage ==
    [][/\ \A r \in 1..Len(sess) :
             sess'[r].clip_count # sess[r].clip_count
             => LET n == sess[r].clip_count + 1
                IN  /\ sess'[r].clip_count = n
                    /\ sess'[r].audio_offset > sess[r].audio_offset
                    /\ Len(sess'[r].srt_buffer) = Len(sess[r].srt_buffer) + 1
                    /\ sess'[r].srt_buffer[Len(sess'[r].srt_buffer)].n = n
                    /\ Len(sess'[r].transcript_buffer) =
                          Len(sess[r].transcript_buffer) + 1
                    /\ sess'[r].transcript_buffer[Len(sess'[r].transcript_buffer)].n = n
       /\ \A t \in tasks : \A ok \in BOOLEAN :
             UploadClip(t, ok)
             => /\ sess' = sess
                /\ adapters' = adapters
                /\ utt' = utt
                /\ received' = received
                /\ listener_clients' = listener_clients]_vars

\* the upload of the first clip failed, and the session has since recorded
\* a second clip and delivered both to its listener
C30_Witness ==
    /\ \E t \in tasks : t.kind = "upload_clip" /\ t.n = 1 /\ t.done = "failed"
    /\ \E t \in tasks : t.kind = "upload_clip" /\ t.n = 2
    /\ Len(sess) = 1
    /\ sess[1].clip_count = 2
    /\ Len(sess[1].srt_buffer) = 2
    /\ Len(sess[1].transcript_buffer) = 2
    /\ Len(received["l1"]) = 2


(***************************************************************************)
(* Claims about a start racing the bot it creates (SpecRace).              *)
(***************************************************************************)

\* C31: whenever the registry holds a session for a bot id, every bot-audio
\* connection bound to a session of that id is bound to the record the
\* registry holds, and every session record of that id that has clips is
\* that record.
C31_BoundToRegistered ==
    \A b \in BotIds :
        Registered(b)
        => /\ \A r \in RecallConns :
                 (recall[r].rec # NoRec /\ sess[recall[r].rec].bot_id = b)
                 => recall[r].rec = bot_sessions[b]
           /\ \A i \in 1..Len(sess) :
                 (sess[i].bot_id = b /\ sess[i].clip_count > 0)
                 => i = bot_sessions[b]


(***************************************************************************)
(* Claims about a session after its stop (SpecStop).                       *)
(***************************************************************************)

\* session record r was stopped by a completed stop request and is no
\* longer the record the registry holds for its bot id
StoppedAndRemoved(r) ==
    /\ sess[r].status = "stopped"
    /\ StopCompleted(sess[r].bot_id)
    /\ bot_sessions[sess[r].bot_id] # r

\* C32: once a session has been stopped and removed, no adapter is created
\* for it, its clip counter, audio offset and buffers stay as they are, and
\* no further storage or status task is created for its bot id.
C32_QuietAfterStop ==
    [][\A r \in 1..Len(sess) :
          StoppedAndRemoved(r)
          => /\ \A a \in (Len(adapters) + 1)..Len(adapters') :
                   adapters'[a].rec # r
             /\ sess'[r].clip_count = sess[r].clip_count
             /\ sess'[r].audio_offset = sess[r].audio_offset
             /\ sess'[r].srt_buffer = sess[r].srt_buffer
             /\ sess'[r].transcript_buffer = sess[r].transcript_buffer
             /\ \A t \in tasks' \ tasks : t.bot # sess[r].bot_id]_vars

(***************************************************************************)
(* Claims about who can stop a session (SpecReject).                       *)
(***************************************************************************)

\* C33: every session in the registry has an authenticated requester
\* identity that passes the ownership check of a stop request, so that some
\* stop request for it is accepted.
C33_EverySessionStoppable ==
    \A b \in BotIds :
        Registered(b)
        => \E t \in Tokens :
              /\ VerifyJwt(t) # NoUser
              /\ Owns(sess[bot_sessions[b]], VerifyJwt(t))

(***************************************************************************)
(* Claims about two stops of one session (SpecObserve).                    *)
(***************************************************************************)

\* the requests of the leave call the bot-hosting service received for bot b
LeaveCalls(b) == {i \in 1..Len(botapi.leave) : botapi.leave[i] = b}

\* the management connections whose stop request for bot b was accepted and
\* is under way
StoppingNow(b) ==
    {c \in MgmtConns : /\ mgmt[c].pc \in {"stop_bot", "stop_close", "stop_bcast"}
                       /\ mgmt[c].bot = b}

\* C34: whatever the interleaving of two stop requests of the owner for one
\* session, the bot-leave call is made at most once for it and at most one of
\* the requests is accepted, so that the flush and the stopped update run at
\* most once.
C34_StopEffectsOnce ==
    \A b \in BotIds :
        /\ Cardinality(LeaveCalls(b)) <= 1
        /\ Cardinality(StoppingNow(b)) <= 1

(***************************************************************************)
(* Claims about the admission of management connections (SpecAuth).        *)
(***************************************************************************)

\* the handler returned for connection c after its token failed verification
Rejected(c) == mgmt[c].pc = "done" /\ mgmt[c].user = NoUser

\* connection c is a key of mgmt_clients
IsMgmtClient(c) == \E i \in 1..Len(mgmt_clients) : mgmt_clients[i][1] = c

\* C35: a management connection whose token fails verification is closed
\* without being registered and without being sent a snapshot; from then on
\* it is never registered, never sent a message, and its handler takes no
\* further step, so no start or stop of it reaches the registry.
C35_BadTokenShutOut ==
    [][\A c \in MgmtConns :
          /\ \A t \in Tokens :
                (VerifyJwt(t) = NoUser /\ MgmtConnect(c, t))
                => /\ mgmt'[c].pc = "done"
                   /\ ~IsMgmtClient(c)'
                   /\ ev' = Quiet
                   /\ bot_sessions' = bot_sessions
          /\ Rejected(c)
             => /\ mgmt'[c] = mgmt[c]
                /\ ~IsMgmtClient(c)'
                /\ \A m \in ev'.out : m.to # c]_vars

\* a connection was rejected while the other one, admitted, has started a
\* session and that session is registered
C35_Witness ==
    \E c, d \in MgmtConns :
        /\ Rejected(c)
        /\ mgmt[d].user # NoUser
        /\ \E b \in BotIds : Registered(b) /\ sess[bot_sessions[b]].user_id = mgmt[d].user

(***************************************************************************)
(* Claims about the end of an accepted stop (SpecObserve).                 *)
(***************************************************************************)

\* the handler of connection c is inside an accepted stop request
InStop(c) == mgmt[c].pc \in {"stop_bot", "stop_close", "stop_bcast"}

\* C36: when the handling of an accepted stop request ends, whether the
\* bot-leave call succeeded or failed, the session is marked stopped and the
\* registry no longer holds it.
C36_StopAlwaysRemoves ==
    [][\A c \in MgmtConns :
          (InStop(c) /\ ~InStop(c)')
          => /\ sess'[mgmt[c].rec].status = "stopped"
             /\ bot_sessions'[mgmt[c].bot] # mgmt[c].rec]_vars

(***************************************************************************)
(* Claims about a translator bot's own audio (SpecOwnAudio).               *)
(***************************************************************************)

\* C37: a step that handles an audio chunk whose participant name is that of
\* a translator bot, at once or after the broadcast of a fallback, creates no
\* adapter and feeds none, starts no utterance and records nothing: adapters,
\* utterances, storage tasks and every session's recording state stay as
\* they are.
C37_OwnAudioSkipped ==
    [][\A r \in RecallConns :
          (\/ \E b \in BotIds, p \in Pids : RecallMessage(r, TranslatorMsg(b, p))
           \/ /\ recall[r].pc = "fb_bcast"
              /\ \E b \in BotIds, p \in Pids : recall[r].m = TranslatorMsg(b, p)
              /\ RecallBroadcastStep(r))
          => /\ adapters' = adapters
             /\ utt' = utt
             /\ tasks' = tasks
             /\ \A i \in 1..Len(sess) :
                   /\ sess'[i].asr_streams = sess[i].asr_streams
                   /\ sess'[i].clip_count = sess[i].clip_count]_vars

\* a connection was bound by a chunk of a translator bot and is back in its
\* loop: the session it is bound to is in its call and no adapter exists
C37_Witness ==
    \E r \in RecallConns :
        /\ recall[r].pc = "idle"
        /\ recall[r].rec # NoRec
        /\ sess[recall[r].rec].status = "in_call"
        /\ adapters = <<>>


=============================================================================
